---------------------------- MODULE Spec2Model ----------------------------
(***************************************************************************)
(* Model of the MoxyWolf board-deck server: the in-memory store            *)
(* (MemStorage) and the Express routes registered over it                  *)
(* (src/server/storage.ts).                                                *)
(*                                                                         *)
(* Strings on which the code computes (emails, passwords, hashes,          *)
(* submission key components, period starts, ids) are sequences of one-    *)
(* character strings; a string the code only stores, compares or           *)
(* concatenates as a whole (a name, a role, a period type) is a sequence   *)
(* of one token, <<"admin">>.  A JavaScript Map is a sequence of entries   *)
(* [k |-> key, v |-> value] in insertion order.  JavaScript's undefined    *)
(* is Undefined where a string or an array is expected and Absent where an *)
(* object is (TLC compares values of one shape only); null is Null.  An   *)
(* array carries a mark that no string has, so that [] and "" differ.      *)
(* Timestamps are the integer millisecond count that toISOString() prints  *)
(* and new Date(...).getTime() reads back.                                 *)
(*                                                                         *)
(* A route handler is followed from one await to the next: each step runs  *)
(* the handler up to and including the store method it awaits, and the     *)
(* steps of requests on different connections interleave.  The catch       *)
(* branches that answer 500 are left out: no method of MemStorage throws.  *)
(***************************************************************************)
EXTENDS Integers, Sequences, FiniteSets, TLC

VARIABLES
    users,        \* MemStorage.users       : Map<id, User>
    submissions,  \* MemStorage.submissions : Map<key, Submission>
    generations,  \* MemStorage.generations : Map<id, DeckGeneration>
    financials,   \* financial record store : Map<"YYYY-MM", FinancialRecord>
    session,      \* session store: session id -> userId or Undefined
    timers,       \* pending setTimeout callbacks, in firing order
    now,          \* the clock read by new Date()
    nextId,       \* number of randomUUID() values drawn so far
    last,         \* the last request handled and its response
    inflight,     \* the requests suspended at an await, by connection
    display       \* the metric row the submit page shows: inputs and result

vars == <<users, submissions, generations, financials, session, timers, now,
          nextId, last, inflight, display>>

stores == <<users, submissions, generations, financials>>

-----------------------------------------------------------------------------
(* Bounds of the model.                                                    *)

MaxUsers == 1         \* users created in one behaviour, beyond the seeds
MaxWrites == 2        \* submission writes in one behaviour
MaxGenerations == 2   \* deck generations created in one behaviour
MaxFinancials == 2    \* financial record writes in one behaviour
MaxClock == 1         \* clock ticks in one behaviour
MaxLimit == 3         \* largest limit passed to getRecentGenerations
MaxCreates == 2       \* users created by overlapping create requests
MaxActual == 13       \* largest actual value entered in a metric row
MaxTarget == 10       \* largest target value entered in a metric row
MaxRecent == 21       \* deck generations created before a long listing

-----------------------------------------------------------------------------
(* JavaScript values and strings.                                          *)

\* A string is a sequence of characters, or of one token that stands for
\* its characters; an array is the sequence of its elements.  undefined
\* and null are pairs that start with the empty token, which no string and
\* no array of strings does.  Absent is an undefined result where records
\* are expected.
Undefined == <<"", "undefined">>
Absent == [undefined |-> TRUE]
Null == <<"", "null">>

\* !x for a string, an array, undefined or null: the empty string is falsy
\* too, an array never is.
Falsy(x) == x \in {Undefined, Null, << >>}

\* An array is the pair of the empty token and "array" followed by its
\* items, so that [] and "" differ; the items of the arrays here are
\* tokens that stand for strings.  Any other value that is not a string
\* (a number, a boolean) is written the same way, as the empty token, the
\* name of its type and its text.
Array(items) == <<"", "array">> \o items
Items(a) == SubSeq(a, 3, Len(a))

\* typeof x === "string" and Array.isArray(x), as z.string() and z.array()
\* test them.
IsString(x) == Len(x) = 0 \/ x[1] # ""
IsArray(x) == Len(x) >= 2 /\ x[1] = "" /\ x[2] = "array"

\* { ...a, ...b }: the fields of a, overridden and extended by those of b.
Spread(a, b) ==
    [f \in DOMAIN a \cup DOMAIN b |-> IF f \in DOMAIN b THEN b[f] ELSE a[f]]

\* The first index i >= from with s[i] = c, or 0 when there is none.
IndexOf(s, c, from) ==
    LET hits == {i \in from..Len(s) : s[i] = c}
    IN  IF hits = {} THEN 0 ELSE CHOOSE i \in hits : \A j \in hits : i <= j

\* The printable ASCII characters; Ascii[i] has character code 31 + i.
\* The double quote (34), the backslash (92) and the backtick (96) are
\* written by name.
Ascii == <<" ","!","QUOTE","#","$","%","&","'","(",")","*","+",",","-",".","/",
           "0","1","2","3","4","5","6","7","8","9",":",";","<","=",">","?",
           "@","A","B","C","D","E","F","G","H","I","J","K","L","M","N","O",
           "P","Q","R","S","T","U","V","W","X","Y","Z","[","BACKSLASH","]","^","_",
           "BACKTICK","a","b","c","d","e","f","g","h","i","j","k","l","m","n","o",
           "p","q","r","s","t","u","v","w","x","y","z","{","|","}","~">>

Chars == {Ascii[i] : i \in 1..Len(Ascii)}

\* The character code of each character.
CharCode == [c \in Chars |-> 31 + IndexOf(Ascii, c, 1)]

\* The lower-case form of each character: "A".."Z" (65..90) map to
\* "a".."z" (97..122).
LowerChar ==
    [c \in Chars |->
        IF CharCode[c] >= 65 /\ CharCode[c] <= 90
        THEN Ascii[CharCode[c] + 32 - 31]
        ELSE c]

\* String.prototype.toLowerCase, on ASCII strings.
toLowerCase(s) == [i \in 1..Len(s) |-> LowerChar[s[i]]]

Base64Alphabet == <<"A","B","C","D","E","F","G","H","I","J","K","L","M","N",
                    "O","P","Q","R","S","T","U","V","W","X","Y","Z","a","b",
                    "c","d","e","f","g","h","i","j","k","l","m","n","o","p",
                    "q","r","s","t","u","v","w","x","y","z","0","1","2","3",
                    "4","5","6","7","8","9","+","/">>

\* Buffer.from(s) reads the character codes of s; B64 is the character of
\* a six-bit group.
B64(n) == Base64Alphabet[n + 1]

RECURSIVE Base64(_)
\* Buffer.toString("base64") of the bytes of s: three bytes become four
\* characters, a last group of one or two bytes is padded with "=".
Base64(s) ==
    IF Len(s) = 0 THEN << >>
    ELSE IF Len(s) = 1 THEN
        LET a == CharCode[s[1]]
        IN  <<B64(a \div 4), B64((a % 4) * 16), "=", "=">>
    ELSE IF Len(s) = 2 THEN
        LET a == CharCode[s[1]]
            b == CharCode[s[2]]
        IN  <<B64(a \div 4), B64((a % 4) * 16 + b \div 16),
              B64((b % 16) * 4), "=">>
    ELSE
        LET a == CharCode[s[1]]
            b == CharCode[s[2]]
            c == CharCode[s[3]]
        IN  <<B64(a \div 4), B64((a % 4) * 16 + b \div 16),
              B64((b % 16) * 4 + c \div 64), B64(c % 64)>>
            \o Base64(SubSeq(s, 4, Len(s)))

hashPassword(password) == Base64(password)

\* A variant of verifyPassword that accepts every password.
verifyPassword_Any(password, hash) == TRUE

verifyPassword(password, hash) == Base64(password) = hash

-----------------------------------------------------------------------------
(* JavaScript Map: entries in insertion order.                             *)

MapKeys(m) == {m[i].k : i \in 1..Len(m)}

MapHas(m, key) == key \in MapKeys(m)

\* Map.prototype.get: the value stored under key, or undefined.
MapGet(m, key) ==
    IF MapHas(m, key)
    THEN m[CHOOSE i \in 1..Len(m) : m[i].k = key].v
    ELSE Absent

\* Map.prototype.set: an existing key keeps its position.
MapSet(m, key, value) ==
    IF MapHas(m, key)
    THEN [i \in 1..Len(m) |->
            IF m[i].k = key THEN [k |-> key, v |-> value] ELSE m[i]]
    ELSE Append(m, [k |-> key, v |-> value])

RECURSIVE MapDelete(_, _)
\* Map.prototype.delete: the map without the entry of key.
MapDelete(m, key) ==
    IF Len(m) = 0 THEN << >>
    ELSE IF m[1].k = key THEN Tail(m)
    ELSE <<m[1]>> \o MapDelete(Tail(m), key)

\* Array.from(map.values())
MapValues(m) == [i \in 1..Len(m) |-> m[i].v]

-----------------------------------------------------------------------------
(* randomUUID(): the n-th value drawn, distinct for distinct n.            *)

Digit == <<"0","1","2","3","4","5","6","7","8","9">>

randomUUID(n) == <<"u", Digit[((n \div 10) % 10) + 1], Digit[(n % 10) + 1]>>

-----------------------------------------------------------------------------
(* MemStorage: user operations.                                            *)

Admin == <<"admin">>
Operator == <<"operator">>

AllProducts ==
    Array(<<"stigviewer", "deepfeedback", "prmvp", "sams", "reggenome">>)

AdminEmail == <<"a","d","m","i","n","@","m","o","x","y","w","o","l","f",
                ".","c","o","m">>
DorianEmail == <<"d","o","r","i","a","n","c","@","m","o","x","y","w","o",
                 "l","f",".","c","o","m">>
AdminHash == <<"Y","W","R","t","a","W","4","x","M","j","M","=">>
DorianHash == <<"T","G","V","0","b","W","V","p","b","j","I","z","N","C",
                "Q","=">>

\* The two users the constructor seeds.
SeedUsers ==
    <<[k |-> randomUUID(1),
       v |-> [id |-> randomUUID(1), email |-> AdminEmail,
              password |-> AdminHash, name |-> <<"Admin User">>,
              role |-> Admin, products |-> AllProducts, createdAt |-> 0]],
      [k |-> randomUUID(2),
       v |-> [id |-> randomUUID(2), email |-> DorianEmail,
              password |-> DorianHash, name |-> <<"Dorian C">>,
              role |-> Admin, products |-> AllProducts, createdAt |-> 0]]>>

getUser(us, id) == MapGet(us, id)

\* Array.prototype.find over the users in insertion order.
getUserByEmail(us, email) ==
    LET hits == {i \in 1..Len(us) :
                    toLowerCase(us[i].v.email) = toLowerCase(email)}
    IN  IF hits = {} THEN Absent
        ELSE us[CHOOSE i \in hits : \A j \in hits : i <= j].v

\* The users map after createUser(insertUser) drew id at time t.
createUser(us, insertUser, id, t) ==
    MapSet(us, id, Spread(insertUser, [id |-> id, createdAt |-> t]))

\* The users map after updateUser(id, updates).
updateUser(us, id, updates) ==
    IF ~MapHas(us, id) THEN us
    ELSE MapSet(us, id, Spread(MapGet(us, id), updates))

\* A variant of deleteUser that removes nothing.
deleteUser_Keeps(us, id) == us

deleteUser(us, id) == MapDelete(us, id)

getAllUsers(us) == MapValues(us)

-----------------------------------------------------------------------------
(* MemStorage: submission operations.                                      *)

getSubmissionKey(productId, fieldName, periodStart) ==
    productId \o <<":">> \o fieldName \o <<":">> \o periodStart

getSubmission(subs, productId, fieldName, periodStart) ==
    MapGet(subs, getSubmissionKey(productId, fieldName, periodStart))

\* A variant of setSubmission that keeps no record but the one it writes.
setSubmission_Only(subs, insertSubmission, id, t) ==
    <<[k |-> getSubmissionKey(insertSubmission.productId,
                              insertSubmission.fieldName,
                              insertSubmission.periodStart),
       v |-> Spread(insertSubmission, [id |-> id, updatedAt |-> t])]>>

\* A variant of setSubmission that writes the value into the record the
\* key already holds.
setSubmission_Merge(subs, insertSubmission, id, t) ==
    LET key == getSubmissionKey(insertSubmission.productId,
                                insertSubmission.fieldName,
                                insertSubmission.periodStart)
    IN  IF MapHas(subs, key)
        THEN MapSet(subs, key,
                    Spread(MapGet(subs, key),
                           [value |-> insertSubmission.value, id |-> id,
                            updatedAt |-> t]))
        ELSE MapSet(subs, key,
                    Spread(insertSubmission, [id |-> id, updatedAt |-> t]))

\* The submissions map after setSubmission(insertSubmission) drew id at t.
setSubmission(subs, insertSubmission, id, t) ==
    MapSet(subs,
           getSubmissionKey(insertSubmission.productId,
                            insertSubmission.fieldName,
                            insertSubmission.periodStart),
           Spread(insertSubmission, [id |-> id, updatedAt |-> t]))

\* A variant of getSubmissionsForProduct whose filter does not look at the
\* period type.
getSubmissionsForProduct_AnyType(subs, productId, periodType, periodStart) ==
    LET keep(sub) == /\ sub.productId = productId
                     /\ sub.periodStart = periodStart
    IN  SelectSeq(MapValues(subs), keep)

\* Array.prototype.filter is SelectSeq.
getSubmissionsForProduct(subs, productId, periodType, periodStart) ==
    LET keep(sub) == /\ sub.productId = productId
                     /\ sub.periodType = periodType
                     /\ sub.periodStart = periodStart
    IN  SelectSeq(MapValues(subs), keep)

getAllSubmissions(subs, periodType, periodStart) ==
    LET keep(sub) == /\ sub.periodType = periodType
                     /\ sub.periodStart = periodStart
    IN  SelectSeq(MapValues(subs), keep)

-----------------------------------------------------------------------------
(* MemStorage: deck generation operations.                                 *)

Pending == <<"pending">>
Completed == <<"completed">>
InProgress == <<"in_progress">>
Failed == <<"failed">>

DefaultLimit == 10            \* getRecentGenerations(limit = 10)
AdminGenerationsLimit == 20   \* GET /api/admin/generations

\* The generations map after createDeckGeneration(generation) drew id at t.
createDeckGeneration(gens, generation, id, t) ==
    MapSet(gens, id, Spread(generation, [id |-> id, createdAt |-> t]))

\* A variant of updateDeckGeneration that stores nothing.
updateDeckGeneration_Lost(gens, id, updates) == gens

\* A variant of updateDeckGeneration that applies the updates to every
\* generation.
updateDeckGeneration_All(gens, id, updates) ==
    [i \in 1..Len(gens) |-> [k |-> gens[i].k, v |-> Spread(gens[i].v, updates)]]

\* A variant of updateDeckGeneration that marks the generation failed.
updateDeckGeneration_Failed(gens, id, updates) ==
    IF ~MapHas(gens, id) THEN gens
    ELSE MapSet(gens, id, Spread(MapGet(gens, id), [status |-> Failed]))

\* The generations map after updateDeckGeneration(id, updates).
updateDeckGeneration(gens, id, updates) ==
    IF ~MapHas(gens, id) THEN gens
    ELSE MapSet(gens, id, Spread(MapGet(gens, id), updates))

\* The comparator of getRecentGenerations: negative when a sorts before b.
compareCreatedAt(a, b) == b.createdAt - a.createdAt

RECURSIVE Sort(_)
\* Array.prototype.sort with compareCreatedAt.  The sort is stable: an
\* element is placed after every earlier element that does not sort
\* after it.
Sort(a) ==
    IF Len(a) = 0 THEN << >>
    ELSE LET x == a[Len(a)]
             rest == Sort(SubSeq(a, 1, Len(a) - 1))
             n == Cardinality({i \in 1..Len(rest) :
                                  compareCreatedAt(rest[i], x) <= 0})
         IN  SubSeq(rest, 1, n) \o <<x>> \o SubSeq(rest, n + 1, Len(rest))

\* Array.prototype.slice(0, end): a negative end counts from the end.
Slice(a, end) ==
    LET e == IF end < 0 THEN (IF Len(a) + end < 0 THEN 0 ELSE Len(a) + end)
             ELSE IF end > Len(a) THEN Len(a) ELSE end
    IN  SubSeq(a, 1, e)

\* A variant of getRecentGenerations that keeps the insertion order.
getRecentGenerations_Unsorted(gens, limit) == Slice(MapValues(gens), limit)

getRecentGenerations(gens, limit) == Slice(Sort(MapValues(gens)), limit)

\* getRecentGenerations(): the limit parameter takes its default.
getRecentGenerationsDefault(gens) == getRecentGenerations(gens, DefaultLimit)

SlidesUrlPrefix == <<"https://docs.google.com/presentation/d/">>

-----------------------------------------------------------------------------
(* Financial record store.  Its code is not among the sources; it is       *)
(* modelled from the specification (sections 3 and 4.2): the key is the    *)
(* first seven characters of periodStart, a write to an existing month     *)
(* replaces every field but keeps the id.                                  *)

\* String.prototype.substring(0, 7)
getFinancialKey(periodStart) ==
    SubSeq(periodStart, 1, IF Len(periodStart) < 7 THEN Len(periodStart) ELSE 7)

getFinancialRecord(fins, periodStart) ==
    MapGet(fins, getFinancialKey(periodStart))

\* A variant of setFinancialRecord that gives every write the id drawn.
setFinancialRecord_FreshId(fins, draft, id, t) ==
    MapSet(fins, getFinancialKey(draft.periodStart),
           Spread(draft, [id |-> id, updatedAt |-> t]))

\* The financial map after an upsert of draft; id is the id drawn for a
\* new month.
setFinancialRecord(fins, draft, id, t) ==
    LET key == getFinancialKey(draft.periodStart)
        keep == IF MapHas(fins, key) THEN MapGet(fins, key).id ELSE id
    IN  MapSet(fins, key, Spread(draft, [id |-> keep, updatedAt |-> t]))

-----------------------------------------------------------------------------
(* Schema validation (zod) at the HTTP boundary.                           *)

Weekly == <<"weekly">>
Monthly == <<"monthly">>

\* The fields of a zod object are required: a missing field is parsed as
\* undefined, which fails z.string(), z.array() and z.enum().
Defined(body, fields) == \A f \in fields : f \in DOMAIN body

\* z.object(...).parse keeps the fields of the schema and drops the others.
Strip(body, fields) == [f \in fields |-> body[f]]

\* The letters and digits, [A-Z0-9] under the flag i.
Letters == {c \in Chars : \/ CharCode[c] \in 65..90
                          \/ CharCode[c] \in 97..122}
AlphaNum == Letters \cup {c \in Chars : CharCode[c] \in 48..57}

\* z.string().email(): the string matches
\*   ^(?!\.)(?!.*\.\.)([A-Z0-9_'+\-\.]*)[A-Z0-9_+-]@
\*    ([A-Z0-9][A-Z0-9\-]*\.)+[A-Z]{2,}$    (flag i).
\* The local part before the one "@" is not empty, does not start with a
\* dot and ends with a letter, digit, "_", "+" or "-"; no two dots follow
\* each other; the domain is labels that start with a letter or digit and
\* go on with letters, digits and "-", each followed by a dot, and then a
\* last part of two or more letters.
IsEmail(e) ==
    LET at == IndexOf(e, "@", 1)
        dots == {i \in (at + 1)..Len(e) : e[i] = "."}
        tld == CHOOSE d \in dots : \A i \in dots : i <= d
    IN  /\ \A i \in 1..Len(e) : e[i] \in Chars
        /\ at > 1
        /\ IndexOf(e, "@", at + 1) = 0
        /\ e[1] # "."
        /\ \A i \in 1..(Len(e) - 1) : ~(e[i] = "." /\ e[i + 1] = ".")
        /\ \A i \in 1..(at - 1) : e[i] \in AlphaNum \cup {"_", "'", "+", "-", "."}
        /\ e[at - 1] \in AlphaNum \cup {"_", "+", "-"}
        /\ dots # {}
        /\ \A i \in (at + 1)..tld :
               IF i = at + 1 \/ e[i - 1] = "."
               THEN e[i] \in AlphaNum
               ELSE e[i] \in AlphaNum \cup {"-", "."}
        /\ Len(e) - tld >= 2
        /\ \A i \in (tld + 1)..Len(e) : e[i] \in Letters

InsertUserFields == {"email", "password", "name", "role", "products"}

\* insertUserSchema accepts data.
ValidInsertUser(data) ==
    /\ Defined(data, InsertUserFields)
    /\ IsString(data.email) /\ IsEmail(data.email)
    /\ IsString(data.password) /\ Len(data.password) >= 6
    /\ IsString(data.name) /\ Len(data.name) >= 1
    /\ data.role \in {Admin, Operator}
    /\ IsArray(data.products)

\* loginSchema accepts data.
ValidLogin(data) ==
    /\ Defined(data, {"email", "password"})
    /\ IsString(data.email) /\ IsEmail(data.email)
    /\ IsString(data.password) /\ Len(data.password) >= 1

InsertSubmissionFields ==
    {"productId", "fieldName", "value", "userEmail", "periodType",
     "periodStart"}

\* insertSubmissionSchema accepts data.
ValidInsertSubmission(data) ==
    /\ Defined(data, InsertSubmissionFields)
    /\ \A f \in InsertSubmissionFields \ {"periodType"} : IsString(data[f])
    /\ data.periodType \in {Weekly, Monthly}

InsertFinancialFields == {"periodStart", "periodEnd", "metrics", "updatedBy"}

\* insertFinancialRecordSchema accepts data; metrics stands for the eight
\* numeric fields.
ValidInsertFinancial(data) ==
    /\ Defined(data, InsertFinancialFields)
    /\ \A f \in {"periodStart", "periodEnd", "updatedBy"} : IsString(data[f])
    /\ data.metrics \notin {Undefined, Null}

-----------------------------------------------------------------------------
(* Percentages with colour coding.  The actual and target values are      *)
(* integers below 2^23 in absolute value; what the code computes from     *)
(* them is computed as the code does, in IEEE 754 double precision with   *)
(* round-to-nearest, ties to even.  A percent value, which the code       *)
(* rounds to one decimal, is held in tenths.                               *)

\* The bits of a double's significand.
Precision == 53

\* A number that is not zero is sign * 0.m[1]m[2]...m[53] * 2^e in binary,
\* with m[1] = 1; zero has sign 0.
Zero == [sign |-> 0, m |-> << >>, e |-> 0]

\* The binary digits of n >= 0, the highest first, and back.
RECURSIVE Bits(_)
Bits(n) == IF n = 0 THEN << >> ELSE Append(Bits(n \div 2), n % 2)

RECURSIVE Value(_)
Value(bits) ==
    IF Len(bits) = 0 THEN 0
    ELSE 2 * Value(SubSeq(bits, 1, Len(bits) - 1)) + bits[Len(bits)]

\* The eight binary digits of v < 256.
Byte(v) ==
    <<(v \div 128) % 2, (v \div 64) % 2, (v \div 32) % 2, (v \div 16) % 2,
      (v \div 8) % 2, (v \div 4) % 2, (v \div 2) % 2, v % 2>>

\* The digits from the first 1 on.
Normalize(bits) ==
    LET first == CHOOSE i \in 1..Len(bits) :
                     bits[i] = 1 /\ \A k \in 1..(i - 1) : bits[k] = 0
    IN  SubSeq(bits, first, Len(bits))

\* Long division: the first 8 * n binary digits of rem / d after the
\* point, for rem < d, and the remainder left.
RECURSIVE Expand(_, _, _)
Expand(rem, d, n) ==
    IF n = 0 THEN [bits |-> << >>, rem |-> rem]
    ELSE LET x == Expand((256 * rem) % d, d, n - 1)
         IN  [bits |-> Byte((256 * rem) \div d) \o x.bits, rem |-> x.rem]

\* The digits plus one in the last place; j is the place of the last 0,
\* or 0 when every digit is 1 (the sum is then 1 followed by zeros, one
\* digit longer).
Succ(bits, j) ==
    IF j = 0 THEN <<1>> \o SubSeq([i \in 1..Len(bits) |-> 0], 1, Len(bits))
    ELSE SubSeq([i \in 1..Len(bits) |->
                    IF i < j THEN bits[i] ELSE IF i = j THEN 1 ELSE 0],
                1, Len(bits))

\* The double nearest to sign * 0.bits * 2^e, where sticky tells that the
\* exact value has digits beyond bits: a tie goes to the even significand.
Nearest(sign, bits, sticky, e) ==
    LET all == bits \o <<0>>
        keep == SubSeq(all, 1, Precision)
        below == sticky \/ \E i \in (Precision + 2)..Len(all) : all[i] = 1
        up == all[Precision + 1] = 1 /\ (below \/ keep[Precision] = 1)
        zeros == {0} \cup {i \in 1..Precision : keep[i] = 0}
        next == Succ(keep, CHOOSE j \in zeros : \A i \in zeros : i <= j)
    IN  IF ~up THEN [sign |-> sign, m |-> keep, e |-> e]
        ELSE [sign |-> sign, m |-> SubSeq(next, 1, Precision),
              e |-> e + Len(next) - Precision]

\* a / d for integers a and d > 0.
Quotient(a, d) ==
    IF a = 0 THEN Zero
    ELSE LET n == IF a < 0 THEN 0 - a ELSE a
             whole == Bits(n \div d)
             x == Expand(n % d, d, 11)
             all == Normalize(whole \o x.bits)
         IN  Nearest(IF a < 0 THEN 0 - 1 ELSE 1, all, x.rem # 0,
                     Len(all) - Len(x.bits))

\* The binary digits of the integer bits * k + carry, eight digits of bits
\* at a time from the last.
RECURSIVE Product(_, _, _)
Product(bits, k, carry) ==
    IF Len(bits) = 0 THEN Bits(carry)
    ELSE Product(SubSeq(bits, 1, Len(bits) - 8), k,
                 (Value(SubSeq(bits, Len(bits) - 7, Len(bits))) * k + carry)
                     \div 256)
         \o Byte((Value(SubSeq(bits, Len(bits) - 7, Len(bits))) * k + carry)
                     % 256)

\* x * k for an integer k > 0.
Times(x, k) ==
    IF x.sign = 0 THEN Zero
    ELSE LET all == Normalize(Product(<<0, 0, 0>> \o x.m, k, 0))
         IN  Nearest(x.sign, all, FALSE, x.e + Len(all) - Precision)

\* The integer part of the absolute value of x.
Whole(x) == IF x.sign = 0 \/ x.e <= 0 THEN 0 ELSE Value(SubSeq(x.m, 1, x.e))

\* The greatest integer that is at most x: for an integer n, x >= n is
\* Floor(x) >= n and n <= x is n <= Floor(x).
Floor(x) ==
    IF x.sign >= 0 THEN Whole(x)
    ELSE 0 - (Whole(x) + IF \E i \in 1..Precision : i > x.e /\ x.m[i] = 1
                         THEN 1 ELSE 0)

\* Math.round(x): the nearest integer, a half goes upwards.
MathRound(x) ==
    LET half == x.sign # 0 /\ x.e >= 0 /\ x.e < Precision /\ x.m[x.e + 1] = 1
        more == \E i \in 1..Precision : i > x.e + 1 /\ x.m[i] = 1
    IN  IF x.sign >= 0 THEN Whole(x) + (IF half THEN 1 ELSE 0)
        ELSE 0 - (Whole(x) + IF half /\ more THEN 1 ELSE 0)

\* A variant of calculatePercent whose yellow band starts at 90 percent.
calculatePercent_Ninety(actual, target) ==
    IF target <= 0 THEN [value |-> 0, color |-> "red"]
    ELSE LET percent == Times(Quotient(actual, target), 100)
         IN  [value |-> MathRound(Times(percent, 10)),
              color |-> IF Floor(percent) >= 100 THEN "green"
                        ELSE IF Floor(percent) >= 90 THEN "yellow"
                        ELSE "red"]

calculatePercent(actual, target) ==
    IF target <= 0 THEN [value |-> 0, color |-> "red"]
    ELSE LET percent == Times(Quotient(actual, target), 100)
         IN  [value |-> MathRound(Times(percent, 10)),
              color |-> IF Floor(percent) >= 100 THEN "green"
                        ELSE IF Floor(percent) >= 80 THEN "yellow"
                        ELSE "red"]

\* For metrics where lower is better; 1.2 is the double nearest to 6 / 5.
calculatePercentInverse(actual, target) ==
    IF target <= 0 THEN [value |-> 0, color |-> "red"]
    ELSE LET percent == Times(Quotient(actual, target), 100)
         IN  [value |-> MathRound(Times(percent, 10)),
              color |-> IF actual <= target THEN "green"
                        ELSE IF actual <= Floor(Times(Quotient(6, 5), target))
                        THEN "yellow"
                        ELSE "red"]

-----------------------------------------------------------------------------
(* The state after construction.                                           *)

Sessions == {"s1", "s2"}

SeedCount == Len(SeedUsers)

\* Response bodies.  A failure answers { error: message }.  The body of a
\* success is kept where a claim reads it (a submission, a generation, a
\* list of generations, a financial record); NoBody stands for every other
\* body.
NoBody == [message |-> <<"ok">>]

Error(message) == [error |-> message]

\* error.errors[0].message of a ZodError
ZodMessage == Error(<<"the first validation issue">>)
EmailTaken == Error(<<"Email already registered">>)
InvalidLogin == Error(<<"Invalid email or password">>)
UserNotFound == Error(<<"User not found">>)
SelfDelete == Error(<<"Cannot delete your own account">>)

\* The connections on which requests arrive, and the state of one that has
\* no request suspended.  A handler runs from one await to the next in one
\* step: the store method it awaits reads or writes the store when it is
\* called, at the end of the step, and the handler goes on with what the
\* method returned in a later step.  A suspended request holds what its
\* handler has in scope: pc names the await it stopped at, userId is
\* req.session.userId (express-session gives each request its own
\* req.session, loaded when the request arrives), id is req.params.id,
\* user and result are what the awaited store methods returned.
Requests == {"r1", "r2"}

Idle == [pc |-> "idle", route |-> "none", s |-> "none",
         userId |-> Undefined, id |-> Undefined, body |-> Absent,
         user |-> Absent, result |-> Absent]

\* The request that arrives for route on session s.
Request(route, s, userId, id, body) ==
    [Idle EXCEPT !.route = route, !.s = s, !.userId = userId, !.id = id,
                 !.body = body]

Init ==
    /\ users = SeedUsers
    /\ submissions = << >>
    /\ generations = << >>
    /\ financials = << >>
    /\ session = [s \in Sessions |-> Undefined]
    /\ timers = << >>
    /\ now = 0
    /\ nextId = SeedCount
    /\ last = [route |-> "none", status |-> 0, body |-> NoBody]
    /\ inflight = [r \in Requests |-> Idle]
    /\ display = [higherBetter |-> TRUE, actual |-> 0, target |-> 0,
                  result |-> calculatePercent(0, 0)]

\* res.status(status).json(body), answering a request to route.
Respond(route, status, body) ==
    last' = [route |-> route, status |-> status, body |-> body]

\* The error requireAuth and requireAdmin answer with.
GateError(status) ==
    IF status = 401 THEN Error(<<"Unauthorized">>) ELSE Error(<<"Forbidden">>)

\* The handler of connection r stops at an await, holding req.
Await(r, req) ==
    /\ inflight' = [inflight EXCEPT ![r] = req]
    /\ UNCHANGED last

\* The handler of connection r answers and ends.
Answer(r, route, status, body) ==
    /\ Respond(route, status, body)
    /\ inflight' = [inflight EXCEPT ![r] = Idle]

\* The status requireAuth answers with, or 0 when it calls next().
requireAuth(userId) == IF Falsy(userId) THEN 401 ELSE 0

\* A variant of requireAdmin that does not read the user's role.
requireAdmin_NoRoleCheck(userId, user) == IF Falsy(userId) THEN 401 ELSE 0

\* The status requireAdmin answers with, or 0 when it calls next(); user
\* is what storage.getUser(req.session.userId) returned.
requireAdmin(userId, user) ==
    IF Falsy(userId) THEN 401
    ELSE IF user = Absent \/ user.role # Admin THEN 403 ELSE 0

\* requireAdmin up to its await, for the request req arriving on r.
AdminGate(r, req) ==
    /\ inflight[r].pc = "idle"
    /\ IF requireAdmin(req.userId, Absent) = 401 THEN
           Answer(r, req.route, 401, GateError(401))
       ELSE
           Await(r, [req EXCEPT !.pc = "requireAdmin",
                                !.user = getUser(users, req.userId)])

\* new Date() advances.
Tick ==
    /\ now < MaxClock
    /\ now' = now + 1
    /\ UNCHANGED <<stores, session, display, timers, nextId, last, inflight>>

-----------------------------------------------------------------------------
(* Auth routes.                                                            *)

\* A variant of registerData in which the fields of the body win.
registerData_BodyWins(body) ==
    Spread([role |-> Operator, products |-> Array(<< >>)], body)

\* The object register validates: { ...req.body, role: "operator",
\* products: [] }.
registerData(body) == Spread(body, [role |-> Operator, products |-> Array(<< >>)])

\* POST /api/auth/register
Register(r, body) ==
    LET req == inflight[r]
        data == registerData(body)
        id == randomUUID(nextId + 1)
    IN  /\ \/ /\ req.pc = "idle"
              /\ IF ~ValidInsertUser(data) THEN
                     Answer(r, "register", 400, ZodMessage)
                 ELSE
                     Await(r, [Request("register", "none", Undefined,
                                       Undefined, body)
                                  EXCEPT !.pc = "getUserByEmail",
                                         !.result = getUserByEmail(users,
                                                        data.email)])
              /\ UNCHANGED <<users, nextId>>
           \/ /\ req.pc = "getUserByEmail"
              /\ req.route = "register"
              /\ req.body = body
              /\ IF req.result # Absent THEN
                     /\ Answer(r, "register", 400, EmailTaken)
                     /\ UNCHANGED <<users, nextId>>
                 ELSE
                     /\ users' = createUser(users,
                            Spread(Strip(data, InsertUserFields),
                                   [password |-> hashPassword(data.password)]),
                            id, now)
                     /\ nextId' = nextId + 1
                     /\ Await(r, [req EXCEPT !.pc = "createUser",
                                             !.result = MapGet(users', id)])
           \/ /\ req.pc = "createUser"
              /\ req.route = "register"
              /\ req.body = body
              /\ Answer(r, "register", 200, [userId |-> req.result.id])
              /\ UNCHANGED <<users, nextId>>
        /\ UNCHANGED <<submissions, generations, financials, session,
                       display, timers, now>>

\* POST /api/auth/login
Login(r, s, body) ==
    LET req == inflight[r]
    IN  /\ \/ /\ req.pc = "idle"
              /\ IF ~ValidLogin(body) THEN
                     Answer(r, "login", 400, ZodMessage)
                 ELSE
                     Await(r, [Request("login", s, session[s], Undefined,
                                       body)
                                  EXCEPT !.pc = "getUserByEmail",
                                         !.user = getUserByEmail(users,
                                                      body.email)])
              /\ UNCHANGED session
           \/ /\ req.pc = "getUserByEmail"
              /\ req.route = "login"
              /\ req.s = s
              /\ req.body = body
              /\ IF req.user = Absent THEN
                     /\ Answer(r, "login", 401, InvalidLogin)
                     /\ UNCHANGED session
                 ELSE IF ~verifyPassword(body.password, req.user.password) THEN
                     /\ Answer(r, "login", 401, InvalidLogin)
                     /\ UNCHANGED session
                 ELSE
                     /\ session' = [session EXCEPT ![s] = req.user.id]
                     /\ Answer(r, "login", 200, NoBody)
        /\ UNCHANGED <<stores, display, timers, now, nextId>>

\* POST /api/auth/logout
Logout(s) ==
    /\ session' = [session EXCEPT ![s] = Undefined]
    /\ Respond("logout", 200, NoBody)
    /\ UNCHANGED <<stores, display, timers, now, nextId, inflight>>

\* The object the client reads from res.json(obj): JSON leaves out the
\* fields whose value is undefined.  Of a user's fields, id, email and
\* createdAt are never undefined.
Json(obj) ==
    [f \in {g \in DOMAIN obj :
               ~(g \in {"password", "name", "role", "products"}
                   /\ obj[g] = Undefined)} |-> obj[f]]

\* The body of GET /api/auth/me: { ...user, password: undefined }.
meBody(user) == Json(Spread(user, [password |-> Undefined]))

\* GET /api/auth/me
Me(r, s) ==
    LET req == inflight[r]
    IN  /\ \/ /\ req.pc = "idle"
              /\ IF requireAuth(session[s]) # 0 THEN
                     Answer(r, "me", 401, GateError(401))
                 ELSE
                     Await(r, [Request("me", s, session[s], Undefined, Absent)
                                  EXCEPT !.pc = "getUser",
                                         !.user = getUser(users, session[s])])
           \/ /\ req.pc = "getUser"
              /\ req.route = "me"
              /\ req.s = s
              /\ IF req.user = Absent THEN
                     Answer(r, "me", 404, UserNotFound)
                 ELSE
                     Answer(r, "me", 200, [user |-> meBody(req.user)])
        /\ UNCHANGED <<stores, session, display, timers, now, nextId>>

-----------------------------------------------------------------------------
(* The dashboard page, computed from the body of GET /api/auth/me.         *)

\* The ids of the product catalog, in catalog order.
Catalog == <<"stigviewer", "deepfeedback", "prmvp", "sams", "reggenome">>

\* Array.prototype.includes
Includes(a, x) == \E i \in 1..Len(a) : a[i] = x

\* currentUser?.products || []
userProducts(currentUser) ==
    IF /\ currentUser # Absent
       /\ "products" \in DOMAIN currentUser
       /\ ~Falsy(currentUser.products)
    THEN currentUser.products ELSE Array(<< >>)

\* currentUser?.role === "admin"
isAdmin(currentUser) ==
    /\ currentUser # Absent
    /\ "role" \in DOMAIN currentUser
    /\ currentUser.role = Admin

\* A variant of assignedProducts that shows the whole catalog.
assignedProducts_All(currentUser) == Catalog

\* The products the dashboard shows: allProducts.filter(p =>
\* userProducts.includes(p.id)).
assignedProducts(currentUser) ==
    LET keep(p) == Includes(Items(userProducts(currentUser)), p)
    IN  SelectSeq(Catalog, keep)

\* The dashboard shows the "No Products Assigned" card.
noProductsCard(currentUser) ==
    Len(assignedProducts(currentUser)) = 0 /\ ~isAdmin(currentUser)

-----------------------------------------------------------------------------
(* Submission routes.                                                      *)

\* GET /api/submissions; a query field is missing when it is absent,
\* undefined or the empty string.
GetSubmissions(r, s, query) ==
    LET req == inflight[r]
    IN  /\ \/ /\ req.pc = "idle"
              /\ IF requireAuth(session[s]) # 0 THEN
                     Answer(r, "getSubmissions", 401, GateError(401))
                 ELSE IF \E f \in {"productId", "periodType", "periodStart"} :
                             f \notin DOMAIN query \/ Falsy(query[f]) THEN
                     Answer(r, "getSubmissions", 400,
                            Error(<<"Missing required parameters">>))
                 ELSE
                     Await(r, [Request("getSubmissions", s, session[s],
                                       Undefined, query)
                                  EXCEPT !.pc = "getSubmissionsForProduct",
                                         !.result =
                                            [submissions |->
                                                getSubmissionsForProduct(
                                                    submissions,
                                                    query.productId,
                                                    query.periodType,
                                                    query.periodStart)]])
           \/ /\ req.pc = "getSubmissionsForProduct"
              /\ req.route = "getSubmissions"
              /\ req.s = s
              /\ req.body = query
              /\ Answer(r, "getSubmissions", 200, req.result)
        /\ UNCHANGED <<stores, session, display, timers, now, nextId>>

\* A variant of submissionData in which the fields of the body win.
submissionData_BodyWins(body, email) == Spread([userEmail |-> email], body)

\* The object POST /api/submissions validates: { ...req.body, userEmail:
\* user.email }.
submissionData(body, email) == Spread(body, [userEmail |-> email])

\* POST /api/submissions
PostSubmission(r, s, body) ==
    LET req == inflight[r]
        data == submissionData(body, req.user.email)
        id == randomUUID(nextId + 1)
        draft == Strip(data, InsertSubmissionFields)
        key == getSubmissionKey(draft.productId, draft.fieldName,
                                draft.periodStart)
    IN  /\ \/ /\ req.pc = "idle"
              /\ IF requireAuth(session[s]) # 0 THEN
                     Answer(r, "postSubmission", 401, GateError(401))
                 ELSE
                     Await(r, [Request("postSubmission", s, session[s],
                                       Undefined, body)
                                  EXCEPT !.pc = "getUser",
                                         !.user = getUser(users, session[s])])
              /\ UNCHANGED <<submissions, nextId>>
           \/ /\ req.pc = "getUser"
              /\ req.route = "postSubmission"
              /\ req.s = s
              /\ req.body = body
              /\ IF req.user = Absent THEN
                     /\ Answer(r, "postSubmission", 404, UserNotFound)
                     /\ UNCHANGED <<submissions, nextId>>
                 ELSE IF ~ValidInsertSubmission(data) THEN
                     /\ Answer(r, "postSubmission", 400, ZodMessage)
                     /\ UNCHANGED <<submissions, nextId>>
                 ELSE
                     /\ submissions' = setSubmission(submissions, draft, id,
                                                     now)
                     /\ nextId' = nextId + 1
                     /\ Await(r, [req EXCEPT
                                     !.pc = "setSubmission",
                                     !.result = MapGet(submissions', key)])
           \/ /\ req.pc = "setSubmission"
              /\ req.route = "postSubmission"
              /\ req.s = s
              /\ req.body = body
              /\ Answer(r, "postSubmission", 200, [submission |-> req.result])
              /\ UNCHANGED <<submissions, nextId>>
        /\ UNCHANGED <<users, generations, financials, session, display,
                       timers, now>>

-----------------------------------------------------------------------------
(* Admin routes.                                                           *)

\* GET /api/admin/users
AdminGetUsers(r, s) ==
    LET req == inflight[r]
    IN  /\ \/ AdminGate(r, Request("adminGetUsers", s, session[s], Undefined,
                                   Absent))
           \/ /\ req.pc = "requireAdmin"
              /\ req.route = "adminGetUsers"
              /\ req.s = s
              /\ IF requireAdmin(req.userId, req.user) # 0 THEN
                     Answer(r, "adminGetUsers", 403, GateError(403))
                 ELSE
                     Await(r, [req EXCEPT !.pc = "getAllUsers"])
           \/ /\ req.pc = "getAllUsers"
              /\ req.route = "adminGetUsers"
              /\ req.s = s
              /\ Answer(r, "adminGetUsers", 200, NoBody)
        /\ UNCHANGED <<stores, session, display, timers, now, nextId>>

\* POST /api/admin/users
AdminCreateUser(r, s, body) ==
    LET req == inflight[r]
        id == randomUUID(nextId + 1)
    IN  /\ \/ /\ AdminGate(r, Request("adminCreateUser", s, session[s],
                                      Undefined, body))
              /\ UNCHANGED <<users, nextId>>
           \/ /\ req.pc = "requireAdmin"
              /\ req.route = "adminCreateUser"
              /\ req.s = s
              /\ req.body = body
              /\ IF requireAdmin(req.userId, req.user) # 0 THEN
                     Answer(r, "adminCreateUser", 403, GateError(403))
                 ELSE IF ~ValidInsertUser(body) THEN
                     Answer(r, "adminCreateUser", 400, ZodMessage)
                 ELSE
                     Await(r, [req EXCEPT
                                  !.pc = "getUserByEmail",
                                  !.result = getUserByEmail(users,
                                                            body.email)])
              /\ UNCHANGED <<users, nextId>>
           \/ /\ req.pc = "getUserByEmail"
              /\ req.route = "adminCreateUser"
              /\ req.s = s
              /\ req.body = body
              /\ IF req.result # Absent THEN
                     /\ Answer(r, "adminCreateUser", 400, EmailTaken)
                     /\ UNCHANGED <<users, nextId>>
                 ELSE
                     /\ users' = createUser(users,
                            Spread(Strip(body, InsertUserFields),
                                   [password |-> hashPassword(body.password)]),
                            id, now)
                     /\ nextId' = nextId + 1
                     /\ Await(r, [req EXCEPT !.pc = "createUser",
                                             !.result = MapGet(users', id)])
           \/ /\ req.pc = "createUser"
              /\ req.route = "adminCreateUser"
              /\ req.s = s
              /\ req.body = body
              /\ Answer(r, "adminCreateUser", 200, NoBody)
              /\ UNCHANGED <<users, nextId>>
        /\ UNCHANGED <<submissions, generations, financials, session,
                       display, timers, now>>

\* What "const { name, role, products } = req.body" reads: a field the
\* body lacks is undefined.
Field(body, f) == IF f \in DOMAIN body THEN body[f] ELSE Undefined

\* PATCH /api/admin/users/:id
AdminPatchUser(r, s, id, body) ==
    LET req == inflight[r]
        updates == [name |-> Field(body, "name"),
                    role |-> Field(body, "role"),
                    products |-> Field(body, "products")]
    IN  /\ \/ /\ AdminGate(r, Request("adminPatchUser", s, session[s], id,
                                      body))
              /\ UNCHANGED users
           \/ /\ req.pc = "requireAdmin"
              /\ req.route = "adminPatchUser"
              /\ req.s = s
              /\ req.id = id
              /\ req.body = body
              /\ IF requireAdmin(req.userId, req.user) # 0 THEN
                     /\ Answer(r, "adminPatchUser", 403, GateError(403))
                     /\ UNCHANGED users
                 ELSE
                     /\ users' = updateUser(users, id, updates)
                     /\ Await(r, [req EXCEPT !.pc = "updateUser",
                                             !.result = getUser(users', id)])
           \/ /\ req.pc = "updateUser"
              /\ req.route = "adminPatchUser"
              /\ req.s = s
              /\ req.id = id
              /\ req.body = body
              /\ IF req.result = Absent THEN
                     Answer(r, "adminPatchUser", 404, UserNotFound)
                 ELSE
                     Answer(r, "adminPatchUser", 200, NoBody)
              /\ UNCHANGED users
        /\ UNCHANGED <<submissions, generations, financials, session,
                       display, timers, now, nextId>>

\* A variant of isSelf that never finds the requester.
isSelf_Never(id, userId) == FALSE

\* id === req.session.userId
isSelf(id, userId) == id = userId

\* DELETE /api/admin/users/:id
AdminDeleteUser(r, s, id) ==
    LET req == inflight[r]
    IN  /\ \/ /\ AdminGate(r, Request("adminDeleteUser", s, session[s], id,
                                      Absent))
              /\ UNCHANGED users
           \/ /\ req.pc = "requireAdmin"
              /\ req.route = "adminDeleteUser"
              /\ req.s = s
              /\ req.id = id
              /\ IF requireAdmin(req.userId, req.user) # 0 THEN
                     /\ Answer(r, "adminDeleteUser", 403, GateError(403))
                     /\ UNCHANGED users
                 ELSE IF isSelf(id, req.userId) THEN
                     /\ Answer(r, "adminDeleteUser", 400, SelfDelete)
                     /\ UNCHANGED users
                 ELSE
                     /\ users' = deleteUser(users, id)
                     /\ Await(r, [req EXCEPT
                                     !.pc = "deleteUser",
                                     !.result = [deleted |->
                                                    MapHas(users, id)]])
           \/ /\ req.pc = "deleteUser"
              /\ req.route = "adminDeleteUser"
              /\ req.s = s
              /\ req.id = id
              /\ IF ~req.result.deleted THEN
                     Answer(r, "adminDeleteUser", 404, UserNotFound)
                 ELSE
                     Answer(r, "adminDeleteUser", 200, NoBody)
              /\ UNCHANGED users
        /\ UNCHANGED <<submissions, generations, financials, session,
                       display, timers, now, nextId>>

\* GET /api/admin/generations
AdminGetGenerations(r, s) ==
    LET req == inflight[r]
    IN  /\ \/ AdminGate(r, Request("adminGetGenerations", s, session[s],
                                   Undefined, Absent))
           \/ /\ req.pc = "requireAdmin"
              /\ req.route = "adminGetGenerations"
              /\ req.s = s
              /\ IF requireAdmin(req.userId, req.user) # 0 THEN
                     Answer(r, "adminGetGenerations", 403, GateError(403))
                 ELSE
                     Await(r, [req EXCEPT
                                  !.pc = "getRecentGenerations",
                                  !.result =
                                     [generations |->
                                         getRecentGenerations(generations,
                                             AdminGenerationsLimit)]])
           \/ /\ req.pc = "getRecentGenerations"
              /\ req.route = "adminGetGenerations"
              /\ req.s = s
              /\ Answer(r, "adminGetGenerations", 200, req.result)
        /\ UNCHANGED <<stores, session, display, timers, now, nextId>>

\* POST /api/admin/generate-deck; setTimeout queues the completion callback.
GenerateDeck(r, s, body) ==
    LET req == inflight[r]
        id == randomUUID(nextId + 1)
    IN  /\ \/ /\ AdminGate(r, Request("generateDeck", s, session[s],
                                      Undefined, body))
              /\ UNCHANGED <<generations, timers, nextId>>
           \/ /\ req.pc = "requireAdmin"
              /\ req.route = "generateDeck"
              /\ req.s = s
              /\ req.body = body
              /\ IF requireAdmin(req.userId, req.user) # 0 THEN
                     Answer(r, "generateDeck", 403, GateError(403))
                 ELSE
                     Await(r, [req EXCEPT
                                  !.pc = "getUser",
                                  !.user = getUser(users, req.userId)])
              /\ UNCHANGED <<generations, timers, nextId>>
           \/ /\ req.pc = "getUser"
              /\ req.route = "generateDeck"
              /\ req.s = s
              /\ req.body = body
              /\ IF req.user = Absent THEN
                     /\ Answer(r, "generateDeck", 404, UserNotFound)
                     /\ UNCHANGED <<generations, nextId>>
                 ELSE
                     /\ generations' = createDeckGeneration(generations,
                            [generatedBy |-> req.user.email,
                             periodType |-> Field(body, "periodType"),
                             periodStart |-> Field(body, "periodStart"),
                             slidesUrl |-> Null,
                             status |-> Pending],
                            id, now)
                     /\ nextId' = nextId + 1
                     /\ Await(r, [req EXCEPT
                                     !.pc = "createDeckGeneration",
                                     !.result = MapGet(generations', id)])
              /\ UNCHANGED timers
           \/ /\ req.pc = "createDeckGeneration"
              /\ req.route = "generateDeck"
              /\ req.s = s
              /\ req.body = body
              /\ timers' = Append(timers, req.result.id)
              /\ Answer(r, "generateDeck", 200, [generation |-> req.result])
              /\ UNCHANGED <<generations, nextId>>
        /\ UNCHANGED <<users, submissions, financials, session, display, now>>

\* The callback generate-deck passed to setTimeout: timers of one delay
\* fire in the order they were set.
CompletionCallback ==
    /\ Len(timers) > 0
    /\ generations' = updateDeckGeneration(generations, Head(timers),
           [status |-> Completed,
            slidesUrl |-> SlidesUrlPrefix \o Head(timers)])
    /\ timers' = Tail(timers)
    /\ UNCHANGED <<users, submissions, financials, session, display, now, nextId, last, inflight>>

\* POST /api/admin/financials (modelled from the specification).
PostFinancial(s, body) ==
    LET user == getUser(users, session[s])
        gate == requireAdmin(session[s], user)
        data == Spread(body, [updatedBy |-> user.email])
        id == randomUUID(nextId + 1)
    IN  /\ IF gate # 0 THEN
               /\ Respond("postFinancial", gate, GateError(gate))
               /\ UNCHANGED <<financials, nextId>>
           ELSE IF ~ValidInsertFinancial(data) THEN
               /\ Respond("postFinancial", 400, ZodMessage)
               /\ UNCHANGED <<financials, nextId>>
           ELSE
               /\ financials' = setFinancialRecord(financials,
                      Strip(data, InsertFinancialFields), id, now)
               /\ nextId' = nextId + 1
               /\ Respond("postFinancial", 200,
                          [financial |->
                              getFinancialRecord(financials',
                                                 data.periodStart)])
        /\ UNCHANGED <<users, submissions, generations, session, display, timers, now, inflight>>

\* GET /api/admin/financials/:period (modelled from the specification).
GetFinancial(s, period) ==
    LET gate == requireAdmin(session[s], getUser(users, session[s]))
    IN
    /\ IF gate # 0 THEN
           Respond("getFinancial", gate, GateError(gate))
       ELSE IF ~MapHas(financials, getFinancialKey(period)) THEN
           Respond("getFinancial", 404,
                   Error(<<"Financial record not found">>))
       ELSE
           Respond("getFinancial", 200,
                   [financial |-> getFinancialRecord(financials, period)])
    /\ UNCHANGED <<stores, session, display, timers, now, nextId, inflight>>

-----------------------------------------------------------------------------
(* Requests the model draws.                                               *)

EmailA == <<"a","@","x",".","c","o">>
EmailAUpper == <<"A","@","X",".","c","o">>
AdminEmailUpper == <<"A","D","M","I","N","@","m","o","x","y","w","o","l","f",
                     ".","c","o","m">>
NotAnEmail == <<"b","a","d">>

PwAdmin == <<"a","d","m","i","n","1","2","3">>
PwSecret == <<"s","e","c","r","e","t","1">>
PwShort == <<"a","b","c">>

\* Registration bodies: valid and invalid fields, with and without the
\* role and products a client may try to set.
RegisterBodies ==
    {[email |-> EmailA, password |-> PwSecret, name |-> <<"Al">>],
     [email |-> EmailAUpper, password |-> PwSecret, name |-> <<"Al">>,
      role |-> Admin, products |-> Array(<<"sams">>)],
     [email |-> AdminEmailUpper, password |-> PwSecret, name |-> <<"Al">>],
     [email |-> NotAnEmail, password |-> PwSecret, name |-> <<"Al">>],
     [email |-> EmailA, password |-> PwShort, name |-> <<"Al">>]}

LoginBodies ==
    {[email |-> AdminEmailUpper, password |-> PwAdmin],
     [email |-> AdminEmail, password |-> PwSecret],
     [email |-> EmailAUpper, password |-> PwSecret],
     [email |-> EmailA, password |-> PwAdmin],
     [email |-> NotAnEmail, password |-> PwAdmin]}

AdminCreateBodies ==
    {[email |-> EmailAUpper, password |-> PwSecret, name |-> <<"Al">>,
      role |-> Admin, products |-> Array(<<"stigviewer">>)],
     [email |-> AdminEmailUpper, password |-> PwSecret, name |-> <<"Al">>,
      role |-> Operator, products |-> Array(<< >>)],
     [email |-> EmailA, password |-> PwSecret, name |-> <<"Al">>,
      role |-> <<"root">>, products |-> Array(<< >>)]}

PatchBodies ==
    {[role |-> Operator],
     [name |-> <<"Bo">>, role |-> Admin, products |-> Array(<<"stigviewer">>)]}

\* The ids a request can name: those drawn so far and one never drawn.
UserIds == {randomUUID(n) : n \in 1..(nextId + 1)}

\* The ids drawn stay within max: a step that would draw one more is not
\* taken.
Cap(max) == nextId' <= SeedCount + max

-----------------------------------------------------------------------------
(* The user and session routes, requested from one browser over one        *)
(* connection: a request arrives when the one before it has been answered. *)

Browser == {"s1"}

Conn == {"r1"}

Next ==
    \/ \E r \in Conn, body \in RegisterBodies :
           Register(r, body) /\ Cap(MaxUsers)
    \/ \E r \in Conn, s \in Browser, body \in LoginBodies : Login(r, s, body)
    \/ \E s \in Browser : Logout(s)
    \/ \E r \in Conn, s \in Browser : Me(r, s)
    \/ \E r \in Conn, s \in Browser : AdminGetUsers(r, s)
    \/ \E r \in Conn, s \in Browser, body \in AdminCreateBodies :
           AdminCreateUser(r, s, body) /\ Cap(MaxUsers)
    \/ \E r \in Conn, s \in Browser, id \in UserIds, body \in PatchBodies :
           AdminPatchUser(r, s, id, body)
    \/ \E r \in Conn, s \in Browser, id \in UserIds : AdminDeleteUser(r, s, id)

Spec == Init /\ [][Next]_vars

-----------------------------------------------------------------------------
(* Steps of a request, as the claims name them.                            *)

\* A request for route arrives on connection r and stops at its first
\* await.
Arrives(r, route) ==
    /\ inflight[r].pc = "idle"
    /\ inflight'[r].route = route

\* The handler of the request for route on connection r goes on from the
\* await pc.
Resumes(r, route, pc) ==
    /\ inflight[r].route = route
    /\ inflight[r].pc = pc
    /\ inflight'[r] # inflight[r]

\* The handler on connection r answers with status in this step.
Answers(r, route, status) ==
    /\ inflight[r].route = route
    /\ inflight'[r] = Idle
    /\ last'.route = route
    /\ last'.status = status

-----------------------------------------------------------------------------
(* Claims about users and sessions (Spec).                                 *)

\* The users with role admin.
Admins(us) == {i \in 1..Len(us) : us[i].v.role = Admin}

\* C5: a DELETE /api/admin/users/:id whose :id is the userId of the
\* requesting session never deletes and leaves the user store unchanged:
\* the request holds that userId from its arrival, and after the admin
\* gate it answers 400 when the requester is an admin (403 otherwise),
\* whatever the number of other admins.
C5_NoSelfDelete ==
    [][/\ \A r \in Requests, s \in Sessions, id \in UserIds :
             (/\ inflight[r].pc = "idle"
              /\ id = session[s]
              /\ AdminDeleteUser(r, s, id))
                => /\ users' = users
                   /\ inflight'[r].pc = "requireAdmin"
                   /\ inflight'[r].userId = id
                   /\ inflight'[r].id = id
       /\ \A r \in Requests :
             (/\ Resumes(r, "adminDeleteUser", "requireAdmin")
              /\ inflight[r].id = inflight[r].userId)
                => /\ users' = users
                   /\ \/ Answers(r, "adminDeleteUser", 400)
                      \/ Answers(r, "adminDeleteUser", 403)
                   /\ (/\ inflight[r].user # Absent
                       /\ inflight[r].user.role = Admin)
                         => /\ Answers(r, "adminDeleteUser", 400)
                            /\ last'.body = SelfDelete]_vars

\* The only remaining admin asked to delete their own account and was
\* refused.
C5_Witness ==
    /\ last.route = "adminDeleteUser"
    /\ last.body = SelfDelete
    /\ Cardinality(Admins(users)) = 1
    /\ \E s \in Sessions, i \in Admins(users) : session[s] = users[i].v.id

\* C9: a user created by POST /api/auth/register has role operator and an
\* empty product list, whatever role and products the request body carries.
C9_RegisterForcesOperator ==
    [][\A r \in Requests :
          (Resumes(r, "register", "getUserByEmail") /\ users' # users)
             => /\ Len(users') = Len(users) + 1
                /\ \A i \in 1..Len(users) : users'[i] = users[i]
                /\ users'[Len(users')].v.email = inflight[r].body.email
                /\ users'[Len(users')].v.role = Operator
                /\ users'[Len(users')].v.products = Array(<< >>)
                /\ inflight'[r].result = users'[Len(users')].v]_vars

\* The registration that asked for role admin and a product succeeded; its
\* body is the only one that creates a user with email EmailAUpper and
\* name Al.
C9_Witness ==
    /\ last.route = "register"
    /\ last.status = 200
    /\ \E i \in 1..Len(users) :
           /\ users[i].v.id = last.body.userId
           /\ users[i].v.email = EmailAUpper
           /\ users[i].v.role = Operator
           /\ users[i].v.products = Array(<< >>)

\* The fields PATCH /api/admin/users/:id can set, and the others of a user.
PatchFields == {"name", "role", "products"}

KeptFields == {"id", "email", "password", "createdAt"}

\* C12: a PATCH /api/admin/users/:id on an existing user gives each of
\* name, role and products that the body supplies the supplied value and
\* leaves every field the body does not supply, and always id, email,
\* password and createdAt, as it was, the other users untouched, and
\* answers 200; for an unknown id the users are unchanged and the answer
\* is 404.
C12_PatchMerges ==
    [][\A r \in Requests :
          /\ (/\ Resumes(r, "adminPatchUser", "requireAdmin")
              /\ inflight'[r].pc = "updateUser")
                => LET id == inflight[r].id
                       body == inflight[r].body
                   IN  IF MapHas(users, id)
                       THEN LET old == getUser(users, id)
                                new == getUser(users', id)
                            IN  /\ new # Absent
                                /\ inflight'[r].result = new
                                /\ \A f \in PatchFields :
                                       new[f] = IF f \in DOMAIN body
                                                THEN body[f] ELSE old[f]
                                /\ \A f \in KeptFields : new[f] = old[f]
                                /\ \A i \in 1..Len(users) :
                                       users[i].k # id => users'[i] = users[i]
                                /\ Len(users') = Len(users)
                       ELSE /\ users' = users
                            /\ inflight'[r].result = Absent
          /\ Resumes(r, "adminPatchUser", "updateUser")
                => /\ users' = users
                   /\ IF inflight[r].result = Absent
                      THEN Answers(r, "adminPatchUser", 404)
                      ELSE Answers(r, "adminPatchUser", 200)]_vars

-----------------------------------------------------------------------------
(* Claims about the dashboard (Spec).                                      *)

Elems(a) == {a[i] : i \in 1..Len(a)}

\* The products list of a stored user, empty when it is undefined.
ProductsOf(u) ==
    IF Falsy(u.products) THEN {} ELSE Elems(Items(u.products))

\* C15: for every user, the products the dashboard shows are exactly the
\* catalog products whose id is in the user's products list (GET
\* /api/auth/me reads the user of the session and answers with that list);
\* directly after registration the set is empty, and after an admin PATCH
\* with products ["stigviewer"] it is {stigviewer}.
C15_DashboardProducts ==
    /\ [](\A i \in 1..Len(users) :
             LET shown == assignedProducts(meBody(users[i].v))
             IN  /\ Elems(shown) = Elems(Catalog) \cap ProductsOf(users[i].v)
                 /\ \A j, k \in 1..Len(shown) : shown[j] = shown[k] => j = k)
    /\ [][\A r \in Requests :
             /\ Arrives(r, "me")
                   => /\ inflight'[r].userId = session[inflight'[r].s]
                      /\ inflight'[r].user
                            = getUser(users, session[inflight'[r].s])
             /\ (Resumes(r, "me", "getUser") /\ inflight[r].user # Absent)
                   => /\ Answers(r, "me", 200)
                      /\ last'.body.user.id = inflight[r].userId
                      /\ Elems(Items(userProducts(last'.body.user)))
                            = ProductsOf(inflight[r].user)
             /\ (Resumes(r, "register", "getUserByEmail") /\ users' # users)
                   => assignedProducts(meBody(users'[Len(users')].v)) = << >>
             /\ (/\ Resumes(r, "adminPatchUser", "requireAdmin")
                 /\ users' # users
                 /\ "products" \in DOMAIN inflight[r].body
                 /\ inflight[r].body.products = Array(<<"stigviewer">>))
                   => assignedProducts(meBody(getUser(users', inflight[r].id)))
                         = <<"stigviewer">>]_vars

\* The registered user, given the product stigviewer by an admin, has
\* signed in and loaded the dashboard, which shows that product alone.
C15_Witness ==
    /\ last.route = "me"
    /\ last.status = 200
    /\ toLowerCase(last.body.user.email) = EmailA
    /\ last.body.user.id = randomUUID(SeedCount + 1)
    /\ assignedProducts(last.body.user) = <<"stigviewer">>

\* C16: the dashboard filters by role: an operator sees exactly the catalog
\* products assigned to them, and an admin sees the whole catalog whatever
\* their own products list contains.
C16_FilterByRole ==
    \A i \in 1..Len(users) :
        LET currentUser == meBody(users[i].v)
            shown == assignedProducts(currentUser)
        IN  IF isAdmin(currentUser)
            THEN shown = Catalog
            ELSE Elems(shown) = Elems(Catalog) \cap ProductsOf(users[i].v)

-----------------------------------------------------------------------------
(* The submission routes, used by the two seeded users.                    *)

PwDorian == <<"L","e","t","m","e","i","n","2","3","4","$">>

\* Logins of the two seeded users, a wrong password and an unknown email.
SeedLogins ==
    {[email |-> AdminEmailUpper, password |-> PwAdmin],
     [email |-> DorianEmail, password |-> PwDorian],
     [email |-> DorianEmail, password |-> PwAdmin],
     [email |-> EmailA, password |-> PwAdmin]}

ProductA == <<"p","a">>
ProductB == <<"p","a",":","k","r">>
FieldA == <<"k","r",":","x">>
FieldB == <<"x">>
Week1 == <<"2025-01-06">>

\* Submission bodies: two writes of one triple, a second triple whose key
\* is the same string, a third triple, an invalid period type, and a body
\* that carries its own userEmail and id.
SubmissionBodies ==
    {[productId |-> ProductA, fieldName |-> FieldA, value |-> <<"100">>,
      periodType |-> Weekly, periodStart |-> Week1],
     [productId |-> ProductA, fieldName |-> FieldA, value |-> <<"200">>,
      periodType |-> Monthly, periodStart |-> Week1],
     [productId |-> ProductB, fieldName |-> FieldB, value |-> <<"300">>,
      periodType |-> Weekly, periodStart |-> Week1],
     [productId |-> ProductA, fieldName |-> FieldB, value |-> <<"100">>,
      periodType |-> Weekly, periodStart |-> Week1],
     [productId |-> ProductA, fieldName |-> FieldA, value |-> <<"100">>,
      periodType |-> <<"daily">>, periodStart |-> Week1],
     [productId |-> ProductA, fieldName |-> FieldA, value |-> <<"600">>,
      periodType |-> Weekly, periodStart |-> Week1,
      userEmail |-> EmailA, id |-> randomUUID(1)]}

\* Queries: two that name all three parameters, one that lacks the period
\* start and one whose product id is the empty string.
SubmissionQueries ==
    {[productId |-> ProductA, periodType |-> Weekly, periodStart |-> Week1],
     [productId |-> ProductB, periodType |-> Monthly, periodStart |-> Week1],
     [productId |-> ProductA, periodType |-> Weekly],
     [productId |-> << >>, periodType |-> Weekly, periodStart |-> Week1]}

NextSubmissions ==
    \/ \E r \in Conn, s \in Sessions, body \in SeedLogins : Login(r, s, body)
    \/ \E s \in Sessions : Logout(s)
    \/ \E r \in Conn, s \in Sessions : Me(r, s)
    \/ \E r \in Conn, s \in Sessions, body \in SubmissionBodies :
           PostSubmission(r, s, body) /\ Cap(MaxWrites)
    \/ \E r \in Conn, s \in Sessions, query \in SubmissionQueries :
           GetSubmissions(r, s, query)

SpecSubmissions == Init /\ [][NextSubmissions]_vars

-----------------------------------------------------------------------------
(* Claims about the submission store (SpecSubmissions).                    *)

\* The (productId, fieldName, periodStart) of a submission or a body.
Triple(x) == <<x.productId, x.fieldName, x.periodStart>>

Triples == {Triple(b) : b \in SubmissionBodies}

\* The step of the POST /api/submissions on connection r in which
\* setSubmission runs.
Writes(r) ==
    /\ Resumes(r, "postSubmission", "getUser")
    /\ inflight'[r].pc = "setSubmission"

\* C1: a setSubmission that writes to a key which already holds a record
\* returns and stores a record with the id of the record it replaces, so
\* the id assigned by the first write to the key is kept.
C1_IdPreserved ==
    [][\A r \in Requests :
          LET body == inflight[r].body
              old == getSubmission(submissions, body.productId,
                                   body.fieldName, body.periodStart)
              new == getSubmission(submissions', body.productId,
                                   body.fieldName, body.periodStart)
          IN  (Writes(r) /\ old # Absent /\ Triple(old) = Triple(body))
                 => (inflight'[r].result.id = old.id /\ new.id = old.id)]_vars

\* C2: the store holds at most one record per (productId, fieldName,
\* periodStart), and getSubmission(p, f, s) is absent until the first write
\* for (p, f, s) and afterwards carries the value and userEmail of the most
\* recent write for (p, f, s): a step that writes (p, f, s) sets them, any
\* other step leaves getSubmission(p, f, s) as it was.
C2_LastWriteWins ==
    /\ \A t \in Triples : getSubmission(submissions, t[1], t[2], t[3]) = Absent
    /\ [][/\ \A i, j \in 1..Len(submissions') :
                Triple(submissions'[i].v) = Triple(submissions'[j].v) => i = j
          /\ \A t \in Triples :
                LET old == getSubmission(submissions, t[1], t[2], t[3])
                    new == getSubmission(submissions', t[1], t[2], t[3])
                IN  IF \E r \in Requests :
                           Writes(r) /\ Triple(inflight[r].body) = t
                    THEN \E r \in Requests :
                           /\ Writes(r) /\ Triple(inflight[r].body) = t
                           /\ new # Absent
                           /\ new.value = inflight[r].body.value
                           /\ new.userEmail = inflight[r].user.email
                    ELSE new = old]_vars

-----------------------------------------------------------------------------
(* Claims about sessions (SpecSubmissions).                                *)

\* C10: a session gets a userId only in the step in which a login answers
\* 200, and the userId is the id of the user that login read from the
\* store: a stored user whose email matches the email of the login
\* case-insensitively and whose hash the password of the login verifies
\* against; a well-formed login that read no user, or whose password does
\* not verify, answers 401 and changes no session; a logout leaves the
\* session without userId; and a request guarded by requireAuth that
\* arrives on a session without userId answers 401 and stores nothing.
C10_SessionBinding ==
    [][/\ \A s \in Sessions :
             (session'[s] # session[s] /\ session'[s] # Undefined)
                => \E r \in Requests :
                      LET req == inflight[r]
                      IN  /\ Resumes(r, "login", "getUserByEmail")
                          /\ Answers(r, "login", 200)
                          /\ req.s = s
                          /\ req.user # Absent
                          /\ toLowerCase(req.user.email)
                                = toLowerCase(req.body.email)
                          /\ Base64(req.body.password) = req.user.password
                          /\ session'[s] = req.user.id
       /\ \A r \in Requests :
             Arrives(r, "login")
                => LET hits == {i \in 1..Len(users) :
                                   toLowerCase(users[i].v.email)
                                      = toLowerCase(inflight'[r].body.email)}
                   IN  /\ session' = session
                       /\ IF hits = {} THEN inflight'[r].user = Absent
                          ELSE \E i \in hits : inflight'[r].user = users[i].v
       /\ \A r \in Requests :
             (/\ Resumes(r, "login", "getUserByEmail")
              /\ \/ inflight[r].user = Absent
                 \/ Base64(inflight[r].body.password)
                       # inflight[r].user.password)
                => (Answers(r, "login", 401) /\ session' = session)
       /\ \A s \in Sessions :
             (last'.route = "logout" /\ Logout(s)) => session'[s] = Undefined
       /\ \A r \in Requests, s \in Sessions :
             (/\ inflight[r].pc = "idle"
              /\ session[s] = Undefined
              /\ last'.route \in {"me", "getSubmissions", "postSubmission"}
              /\ \/ Me(r, s)
                 \/ \E query \in SubmissionQueries : GetSubmissions(r, s, query)
                 \/ \E body \in SubmissionBodies : PostSubmission(r, s, body))
                => /\ last'.status = 401
                   /\ inflight' = inflight
                   /\ submissions' = submissions]_vars

\* A login was refused while another session stays signed in, and the
\* refused login named a stored user or none.
C10_Witness ==
    /\ last.route = "login"
    /\ last.status = 401
    /\ last.body = InvalidLogin
    /\ \E s \in Sessions : session[s] # Undefined
    /\ \E s \in Sessions : session[s] = Undefined

-----------------------------------------------------------------------------
(* Further claims about submissions (SpecSubmissions).                     *)

\* The fields of a stored submission.
SubmissionFields == InsertSubmissionFields \cup {"id", "updatedAt"}

\* C11: the submission a POST /api/submissions stores has, as userEmail,
\* the email of the user the request read for the userId of its session,
\* which is the email that user has at the time of the write; a userEmail
\* (or an id) carried by the request body does not reach the store, so
\* every stored userEmail is the email of a user.
C11_UserEmailFromSession ==
    /\ [](\A i \in 1..Len(submissions) :
             /\ DOMAIN submissions[i].v = SubmissionFields
             /\ \E j \in 1..Len(users) :
                    submissions[i].v.userEmail = users[j].v.email)
    /\ [][\A r \in Requests :
             /\ Arrives(r, "postSubmission")
                   => /\ inflight'[r].userId = session[inflight'[r].s]
                      /\ inflight'[r].user
                            = getUser(users, session[inflight'[r].s])
             /\ Writes(r)
                   => LET body == inflight[r].body
                          key == getSubmissionKey(body.productId,
                                     body.fieldName, body.periodStart)
                          email == inflight[r].user.email
                      IN  /\ getUser(users, inflight[r].userId) # Absent
                          /\ getUser(users, inflight[r].userId).email = email
                          /\ inflight'[r].result.userEmail = email
                          /\ MapGet(submissions', key) = inflight'[r].result
                          /\ MapGet(submissions', key).id
                                = randomUUID(nextId + 1)
                          /\ \A k \in MapKeys(submissions') \ {key} :
                                 MapGet(submissions', k) = MapGet(submissions, k)
             /\ Resumes(r, "postSubmission", "setSubmission")
                   => /\ Answers(r, "postSubmission", 200)
                      /\ last'.body.submission = inflight[r].result
                      /\ submissions' = submissions]_vars

\* The body that carries a userEmail and an id of its own was stored; only
\* that body has the value 600.
C11_Witness ==
    /\ last.route = "postSubmission"
    /\ last.status = 200
    /\ last.body.submission.value = <<"600">>
    /\ last.body.submission.userEmail = DorianEmail
    /\ MapGet(submissions, getSubmissionKey(ProductA, FieldA, Week1))
          = last.body.submission

-----------------------------------------------------------------------------
(* Claims about the submission key and the submission queries              *)
(* (SpecSubmissions).                                                      *)

\* C17: getSubmissionKey is injective on the triples POST /api/submissions
\* accepts: the key of a stored record differs from the key of every
\* other triple, and a write for one triple leaves the records of all
\* other triples in the store.
C17_KeyInjective ==
    /\ [](\A i \in 1..Len(submissions), t \in Triples :
             t # Triple(submissions[i].v)
                => getSubmissionKey(t[1], t[2], t[3]) # submissions[i].k)
    /\ [][\A r \in Requests :
             Writes(r)
                => \A i \in 1..Len(submissions) :
                       Triple(submissions[i].v) # Triple(inflight[r].body)
                          => \E j \in 1..Len(submissions') :
                                 submissions'[j] = submissions[i]]_vars

\* The product ids, period types and period starts the listings are asked
\* for: those of the request bodies, and a week nothing is stored for.
ListedProducts == {b.productId : b \in SubmissionBodies}
ListedTypes == {Weekly, Monthly}
ListedStarts == {Week1, <<"2025-01-13">>}

\* The stored submissions of a period type and period start that have one
\* of the given product ids.
Stored(ps, t, s) ==
    {submissions[i].v : i \in {j \in 1..Len(submissions) :
                                  /\ submissions[j].v.productId \in ps
                                  /\ submissions[j].v.periodType = t
                                  /\ submissions[j].v.periodStart = s}}

\* C19: getSubmissionsForProduct(p, t, s) returns exactly the stored
\* submissions with productId p, periodType t and periodStart s, each
\* once; getAllSubmissions(t, s) returns exactly the union of those
\* results over all product ids, each once.
C19_ListingsExact ==
    \A t \in ListedTypes, s \in ListedStarts :
        LET all == getAllSubmissions(submissions, t, s)
            every == ListedProducts
                        \cup {submissions[i].v.productId :
                                 i \in 1..Len(submissions)}
        IN  /\ \A p \in ListedProducts :
                   LET one == getSubmissionsForProduct(submissions, p, t, s)
                   IN  /\ Elems(one) = Stored({p}, t, s)
                       /\ Len(one) = Cardinality(Stored({p}, t, s))
            /\ Elems(all)
                  = UNION {Elems(getSubmissionsForProduct(submissions,
                                                          p, t, s)) :
                              p \in every}
            /\ Len(all) = Cardinality(Elems(all))

\* Two products have a weekly record each: the weekly listing of either
\* product is one of the two stored records, the weekly listing of all
\* products is both, and the monthly listing is empty.
C19_Witness ==
    /\ Len(submissions) = 2
    /\ Len(getSubmissionsForProduct(submissions, ProductA, Weekly, Week1)) = 1
    /\ Len(getSubmissionsForProduct(submissions, ProductB, Weekly, Week1)) = 1
    /\ Len(getAllSubmissions(submissions, Weekly, Week1)) = 2
    /\ getAllSubmissions(submissions, Monthly, Week1) = <<>>

-----------------------------------------------------------------------------
(* Overlapping POST /api/submissions requests of the two seeded users on   *)
(* one (productId, fieldName, periodStart), over two connections: the      *)
(* first browser signs in as the seeded admin, the second as Dorian.       *)

OverlapBodies ==
    {[productId |-> ProductA, fieldName |-> FieldA, value |-> <<"100">>,
      periodType |-> Weekly, periodStart |-> Week1],
     [productId |-> ProductA, fieldName |-> FieldA, value |-> <<"200">>,
      periodType |-> Monthly, periodStart |-> Week1]}

OverlapQueries ==
    {[productId |-> ProductA, periodType |-> Weekly, periodStart |-> Week1]}

NextOverlap ==
    \/ \E r \in Requests :
           Login(r, "s1", [email |-> AdminEmail, password |-> PwAdmin])
    \/ \E r \in Requests :
           Login(r, "s2", [email |-> DorianEmail, password |-> PwDorian])
    \/ \E s \in Sessions : Logout(s)
    \/ \E r \in Requests, s \in Sessions, body \in OverlapBodies :
           PostSubmission(r, s, body) /\ Cap(MaxWrites)
    \/ \E r \in Requests, s \in Sessions, query \in OverlapQueries :
           GetSubmissions(r, s, query)

SpecOverlap == Init /\ [][NextOverlap]_vars

\* The draft fields of a submission.
DraftFields == {"productId", "fieldName", "value", "userEmail", "periodType",
                "periodStart"}

\* C14: with POST /api/submissions requests on one key overlapping at
\* their awaits, the store has at most one record for the key; the step in
\* which a request's setSubmission runs leaves, under the key, a record
\* that has every draft field (value, userEmail, periodType and the key
\* fields) from that request's draft, and no other step of either request
\* changes the store.  So after any interleaving the record is the draft
\* of the request whose setSubmission ran last.
C14_OverlappingWrites ==
    /\ [](Len(submissions) <= 1)
    /\ [][/\ \A r \in Requests :
                Writes(r)
                   => LET req == inflight[r]
                          new == MapGet(submissions',
                                        getSubmissionKey(req.body.productId,
                                                         req.body.fieldName,
                                                         req.body.periodStart))
                      IN  /\ new # Absent
                          /\ \A f \in DraftFields \ {"userEmail"} :
                                 new[f] = req.body[f]
                          /\ new.userEmail = req.user.email
                          /\ new = inflight'[r].result
          /\ (\A q \in Requests : ~Writes(q))
                => submissions' = submissions]_vars

\* Both requests have run setSubmission and neither has answered: they
\* overlap.  The stored record is the draft of the second connection, which
\* wrote last, and differs from the first's in value, userEmail and
\* periodType.
C14_Witness ==
    /\ inflight["r1"].pc = "setSubmission"
    /\ inflight["r2"].pc = "setSubmission"
    /\ Len(submissions) = 1
    /\ submissions[1].v = inflight["r2"].result
    /\ submissions[1].v.id = randomUUID(SeedCount + 2)
    /\ inflight["r1"].result.id = randomUUID(SeedCount + 1)
    /\ \A f \in {"value", "userEmail", "periodType"} :
           inflight["r1"].result[f] # inflight["r2"].result[f]

\* C18: periodType is not part of the key and a write replaces the whole
\* record.  When setSubmission runs for a triple whose stored record has
\* another periodType, the store keeps one record for the triple, that
\* record has the new periodType and value, and neither
\* getSubmissionsForProduct nor getAllSubmissions for the old periodType
\* returns a record of that field any more.
C18_PeriodTypeReplaced ==
    [][\A r \in Requests :
          Writes(r)
             => LET body == inflight[r].body
                    old == getSubmission(submissions, body.productId,
                                         body.fieldName, body.periodStart)
                    new == getSubmission(submissions', body.productId,
                                         body.fieldName, body.periodStart)
                IN  (/\ old # Absent
                     /\ Triple(old) = Triple(body)
                     /\ old.periodType # body.periodType)
                       => /\ Len(submissions') = Len(submissions)
                          /\ new.periodType = body.periodType
                          /\ new.value = body.value
                          /\ \A sub \in Elems(getSubmissionsForProduct(
                                     submissions', body.productId,
                                     old.periodType, body.periodStart)) :
                                 sub.fieldName # body.fieldName
                          /\ \A sub \in Elems(getAllSubmissions(
                                     submissions', old.periodType,
                                     body.periodStart)) :
                                 Triple(sub) # Triple(body)]_vars

\* The first connection's monthly write ran after the second's weekly
\* write of the same triple: the stored record is monthly and the weekly
\* listings are empty.
C18_Witness ==
    /\ inflight["r1"].pc = "setSubmission"
    /\ inflight["r2"].pc = "setSubmission"
    /\ inflight["r2"].result.periodType = Weekly
    /\ inflight["r2"].result.id = randomUUID(SeedCount + 1)
    /\ inflight["r1"].result.periodType = Monthly
    /\ Triple(inflight["r1"].result) = Triple(inflight["r2"].result)
    /\ submissions[1].v = inflight["r1"].result
    /\ getSubmissionsForProduct(submissions, ProductA, Weekly, Week1) = <<>>
    /\ getAllSubmissions(submissions, Weekly, Week1) = <<>>
    /\ Len(getAllSubmissions(submissions, Monthly, Week1)) = 1

GenerateBodies ==
    {[periodType |-> Weekly, periodStart |-> Week1],
     [periodType |-> Monthly]}

NextDeck ==
    \/ \E r \in Conn :
           Login(r, "s1", [email |-> AdminEmail, password |-> PwAdmin])
    \/ Logout("s1")
    \/ \E r \in Conn, body \in GenerateBodies :
           GenerateDeck(r, "s1", body) /\ Cap(MaxGenerations)
    \/ \E r \in Conn : AdminGetGenerations(r, "s1")
    \/ CompletionCallback
    \/ Tick

SpecDeck == Init /\ [][NextDeck]_vars

\* The steps of connection r's generate-deck request that the event loop
\* runs once the request has arrived.
GenerateDeckResumes(r) ==
    /\ inflight[r].pc # "idle"
    /\ \E body \in GenerateBodies :
           GenerateDeck(r, "s1", body) /\ Cap(MaxGenerations)

\* The process keeps running: pending continuations run and queued timers
\* fire.
FairSpecDeck ==
    /\ SpecDeck
    /\ WF_vars(CompletionCallback)
    /\ \A r \in Conn : WF_vars(GenerateDeckResumes(r))

-----------------------------------------------------------------------------
(* One admin who requests decks until the store holds more generations     *)
(* than the admin listing returns, and lists them from then on.  The clock *)
(* advances between the first deck and the second: the later ones are      *)
(* created in one millisecond.                                             *)

NextRecent ==
    \/ \E r \in Conn :
           Login(r, "s1", [email |-> AdminEmail, password |-> PwAdmin])
    \/ \E r \in Conn :
           GenerateDeck(r, "s1", [periodType |-> Weekly, periodStart |-> Week1])
              /\ Cap(MaxRecent)
    \/ \E r \in Conn :
           AdminGetGenerations(r, "s1")
              /\ Len(generations) > AdminGenerationsLimit
    \/ CompletionCallback
    \/ Tick /\ Len(generations) = 1

SpecRecent == Init /\ [][NextRecent]_vars

-----------------------------------------------------------------------------
(* Claims about deck generations (SpecDeck, FairSpecDeck, SpecRecent).     *)

\* The limits a claim draws for getRecentGenerations.
Limits == 0..MaxLimit

\* r holds at most n generations: as many as the store has, up to n.
AtMost(r, n) ==
    Len(r) = IF n < Len(generations) THEN n ELSE Len(generations)

\* r holds stored generations, each once, and no generation left out was
\* created after one of r.
Greatest(r) ==
    LET listed == {r[i].id : i \in 1..Len(r)}
    IN  /\ \A i \in 1..Len(r) : MapGet(generations, r[i].id) = r[i]
        /\ \A i, j \in 1..Len(r) : r[i].id = r[j].id => i = j
        /\ \A k \in 1..Len(generations) :
               generations[k].v.id \notin listed
                  => \A i \in 1..Len(r) :
                         generations[k].v.createdAt <= r[i].createdAt

StrictlyDecreasing(r) ==
    \A i \in 1..(Len(r) - 1) : r[i].createdAt > r[i + 1].createdAt

NonIncreasing(r) ==
    \A i \in 1..(Len(r) - 1) : r[i].createdAt >= r[i + 1].createdAt

\* GET /api/admin/generations reads getRecentGenerations(20) and answers
\* what it read.
AdminListsTwenty ==
    \A r \in Requests :
        /\ (/\ Resumes(r, "adminGetGenerations", "requireAdmin")
            /\ inflight'[r].pc = "getRecentGenerations")
              => inflight'[r].result.generations
                    = getRecentGenerations(generations, 20)
        /\ Resumes(r, "adminGetGenerations", "getRecentGenerations")
              => /\ Answers(r, "adminGetGenerations", 200)
                 /\ last'.body = inflight[r].result
        /\ Answers(r, "adminGetGenerations", 200)
              => Resumes(r, "adminGetGenerations", "getRecentGenerations")

\* C6, as stated: for every limit n, getRecentGenerations(n) returns at
\* most n generations, those with the greatest createdAt, with strictly
\* decreasing createdAt; the default limit is 10 and the admin listing
\* uses 20.
C6_StrictlyDecreasing ==
    /\ [](/\ \A n \in Limits :
                LET r == getRecentGenerations(generations, n)
                IN  AtMost(r, n) /\ Greatest(r) /\ StrictlyDecreasing(r)
          /\ getRecentGenerationsDefault(generations)
                = getRecentGenerations(generations, 10)
          /\ StrictlyDecreasing(getRecentGenerationsDefault(generations)))
    /\ [][AdminListsTwenty]_vars

\* The place of the generation id in the store: generations are stored in
\* the order they were created.
Position(id) == CHOOSE k \in 1..Len(generations) : generations[k].v.id = id

\* Neighbours in r with equal createdAt come in the order they were
\* stored.
InsertionOrder(r) ==
    \A i \in 1..(Len(r) - 1) :
        r[i].createdAt = r[i + 1].createdAt
           => Position(r[i].id) < Position(r[i + 1].id)

\* C6, amended: for every limit n, getRecentGenerations(n) returns at most
\* n generations, those with the greatest createdAt, and consecutive
\* elements have non-increasing createdAt: generations created in the same
\* millisecond carry equal createdAt and come in insertion order; the
\* default limit is 10 and the admin listing uses 20.  The limits drawn are
\* the small ones, 10 and 20, on stores of up to more than 20 generations.
C6_NonIncreasing ==
    /\ [](/\ \A n \in Limits \cup {DefaultLimit, AdminGenerationsLimit} :
                LET r == getRecentGenerations(generations, n)
                IN  /\ AtMost(r, n)
                    /\ Greatest(r)
                    /\ NonIncreasing(r)
                    /\ InsertionOrder(r)
          /\ getRecentGenerationsDefault(generations)
                = getRecentGenerations(generations, 10))
    /\ [][AdminListsTwenty]_vars

\* The admin listing returned 20 of 21 generations: the first one stored
\* was created a millisecond before the others and is left out, and the
\* second and third, created in the same millisecond, come first in that
\* order.
C6_Witness ==
    /\ last.route = "adminGetGenerations"
    /\ last.status = 200
    /\ Len(generations) = AdminGenerationsLimit + 1
    /\ Len(last.body.generations) = AdminGenerationsLimit
    /\ last.body.generations = getRecentGenerations(generations, 20)
    /\ last.body.generations[1].id = generations[2].v.id
    /\ last.body.generations[2].id = generations[3].v.id
    /\ last.body.generations[1].createdAt = last.body.generations[2].createdAt
    /\ generations[1].v.createdAt < last.body.generations[20].createdAt

\* The ids generate-deck can draw.
GenIds == {randomUUID(n) : n \in (SeedCount + 1)..(SeedCount + MaxGenerations)}

\* getRecentGenerations lists the generation id as completed, with a
\* slidesUrl.
ListedCompleted(id) ==
    LET r == getRecentGenerations(generations, AdminGenerationsLimit)
    IN  \E i \in 1..Len(r) :
            /\ r[i].id = id
            /\ r[i].status = Completed
            /\ r[i].slidesUrl # Null

\* Connection r's generate-deck request creates its generation.
Creates(r) ==
    /\ Resumes(r, "generateDeck", "getUser")
    /\ inflight'[r].pc = "createDeckGeneration"

\* C7: a POST /api/admin/generate-deck that succeeds creates a new
\* generation whose status is pending and whose slidesUrl is null and
\* answers with that generation as created, and, the process running on and
\* the timer firing, every generation created is eventually listed by
\* getRecentGenerations as completed with a non-null slidesUrl.
C7_PendingThenCompleted ==
    /\ [][\A r \in Requests :
             /\ Creates(r)
                   => LET g == inflight'[r].result
                      IN  /\ g.status = Pending
                          /\ g.slidesUrl = Null
                          /\ ~MapHas(generations, g.id)
                          /\ MapGet(generations', g.id) = g
             /\ Resumes(r, "generateDeck", "createDeckGeneration")
                   => /\ Answers(r, "generateDeck", 200)
                      /\ last'.body.generation = inflight[r].result
                      /\ last'.body.generation.status = Pending
                      /\ last'.body.generation.slidesUrl = Null
             /\ Answers(r, "generateDeck", 200)
                   => Resumes(r, "generateDeck", "createDeckGeneration")]_vars
    /\ \A id \in GenIds : MapHas(generations, id) ~> ListedCompleted(id)

\* Two generations were requested and both timers have fired.
C7_Witness ==
    /\ Len(generations) = 2
    /\ timers = << >>
    /\ \A i \in 1..Len(generations) : ListedCompleted(generations[i].v.id)

-----------------------------------------------------------------------------
(* Claims about the status of deck generations (SpecDeck).                 *)

\* C20: in every state reachable through the routes and the completion
\* timer, every deck generation has status pending or completed, never
\* in_progress or failed; a generation stays in the store, and the only
\* change of its status is from pending to completed.
C20_PendingOrCompleted ==
    /\ [](\A i \in 1..Len(generations) :
             /\ generations[i].v.status \in {Pending, Completed}
             /\ generations[i].v.status \notin {InProgress, Failed})
    /\ [][\A i \in 1..Len(generations) :
             LET id == generations[i].k
                 old == generations[i].v.status
             IN  /\ MapHas(generations', id)
                 /\ MapGet(generations', id).status # old
                       => /\ old = Pending
                          /\ MapGet(generations', id).status = Completed]_vars

\* The first generation's timer has fired and the second's has not: one
\* generation is completed, the other still pending.
C20_Witness ==
    /\ Len(generations) = 2
    /\ generations[1].v.status = Completed
    /\ generations[2].v.status = Pending
    /\ timers = <<generations[2].k>>

\* The number of timers queued for the generation id.
Queued(id) == Cardinality({i \in 1..Len(timers) : timers[i] = id})

\* The fields of a generation that createDeckGeneration sets for good.
CreatedFields == {"id", "generatedBy", "periodType", "periodStart", "createdAt"}

\* The number of requests that have created the generation id and have not
\* yet set its timer.
Unset(id) ==
    Cardinality({r \in Requests :
        /\ inflight[r].pc = "createDeckGeneration"
        /\ inflight[r].result.id = id})

\* C21: deck generations are append-only.  A generation is never removed
\* and its id, generatedBy, periodType, periodStart and createdAt never
\* change; while it is pending, either its own request is about to set its
\* completion callback or one callback is queued for it, and none once it
\* is completed; its record changes only in the step in which its own
\* callback fires, from pending to completed; a completed generation never
\* changes again; and, the process running on and the timers firing, every
\* generation gets its update.
C21_AppendOnly ==
    /\ [](\A i \in 1..Len(generations) :
             /\ generations[i].v.id = generations[i].k
             /\ generations[i].v.status = Pending
                   => Queued(generations[i].k) + Unset(generations[i].k) = 1
             /\ generations[i].v.status # Pending
                   => Queued(generations[i].k) + Unset(generations[i].k) = 0)
    /\ [][\A i \in 1..Len(generations) :
             LET id == generations[i].k
                 old == generations[i].v
                 new == MapGet(generations', id)
             IN  /\ MapHas(generations', id)
                 /\ \A f \in CreatedFields : new[f] = old[f]
                 /\ new # old
                       => /\ Len(timers) > 0
                          /\ Head(timers) = id
                          /\ timers' = Tail(timers)
                          /\ old.status = Pending
                          /\ new.status = Completed
                 /\ old.status = Completed => new = old]_vars
    /\ \A id \in GenIds :
           MapHas(generations, id)
              ~> (MapHas(generations, id) /\ Queued(id) + Unset(id) = 0)

\* The one generation was completed by its callback and then listed: the
\* listing shows the stored record, created at time 0 and read at time 1.
C21_Witness ==
    /\ Len(generations) = 1
    /\ generations[1].v.status = Completed
    /\ generations[1].v.createdAt = 0
    /\ now = 1
    /\ timers = << >>
    /\ last.route = "adminGetGenerations"
    /\ last.status = 200
    /\ last.body.generations = <<generations[1].v>>

-----------------------------------------------------------------------------
(* Claims about the slides URL of deck generations (SpecDeckOverlap).      *)

\* Two connections post generate-deck while the admin of session s1 logs
\* in and out and lists the generations on the first.
NextDeckOverlap ==
    \/ Login("r1", "s1", [email |-> AdminEmail, password |-> PwAdmin])
    \/ Logout("s1")
    \/ \E r \in Requests, body \in GenerateBodies :
           GenerateDeck(r, "s1", body) /\ Cap(MaxGenerations)
    \/ AdminGetGenerations("r1", "s1")
    \/ CompletionCallback

SpecDeckOverlap == Init /\ [][NextDeckOverlap]_vars

\* C28: in every reachable state, under any interleaving of generate-deck
\* requests and completion callbacks, the slidesUrl of a generation is
\* non-null exactly when its status is completed, and a non-null
\* slidesUrl is the URL derived from the generation's own id.
C28_SlidesUrlOwnId ==
    \A i \in 1..Len(generations) :
        LET g == generations[i].v
        IN  /\ (g.slidesUrl # Null) <=> (g.status = Completed)
            /\ g.slidesUrl # Null
                  => g.slidesUrl = SlidesUrlPrefix \o generations[i].k
            /\ \A j \in 1..Len(generations) :
                   (j # i /\ g.slidesUrl # Null)
                      => g.slidesUrl # SlidesUrlPrefix \o generations[j].k

\* Of two generations the first has the URL of its own id and the second
\* has none yet; the last answer was that of the second request.
\* Two requests overlapped: the first generation has the URL of its own id
\* while the request that created the second has yet to set its timer.
C28_Witness ==
    /\ Len(generations) = 2
    /\ generations[1].v.slidesUrl = SlidesUrlPrefix \o generations[1].k
    /\ generations[2].v.slidesUrl = Null
    /\ Unset(generations[2].k) = 1
    /\ timers = << >>

-----------------------------------------------------------------------------
-----------------------------------------------------------------------------
(* The financial routes.                                                   *)

Jan01 == <<"2","0","2","5","-","0","1","-","0","1">>
Jan15 == <<"2","0","2","5","-","0","1","-","1","5">>
Feb01 == <<"2","0","2","5","-","0","2","-","0","1">>

FinancialBodies ==
    {[periodStart |-> Jan01, periodEnd |-> <<"2025-01-31">>,
      metrics |-> <<"m1">>],
     [periodStart |-> Jan15, periodEnd |-> <<"2025-01-30">>,
      metrics |-> <<"m2">>],
     [periodStart |-> Feb01, periodEnd |-> <<"2025-02-28">>,
      metrics |-> <<"m1">>],
     [periodStart |-> Jan01, periodEnd |-> <<"2025-01-31">>]}

NextFinancials ==
    \/ \E r \in Conn, s \in Browser, body \in SeedLogins : Login(r, s, body)
    \/ \E s \in Browser : Logout(s)
    \/ \E s \in Browser, body \in FinancialBodies :
           PostFinancial(s, body) /\ Cap(MaxFinancials)
    \/ \E s \in Browser, period \in {Jan01, Jan15, Feb01} :
           GetFinancial(s, period)
    \/ Tick

SpecFinancials == Init /\ [][NextFinancials]_vars

-----------------------------------------------------------------------------
(* Claims about financial records (SpecFinancials).                        *)

\* The calendar month (YYYY-MM) of a period start.
Month(periodStart) == SubSeq(periodStart, 1, 7)

\* The financial records of us whose periodStart falls in month.
InMonth(fins, month) ==
    {i \in 1..Len(fins) : Month(fins[i].v.periodStart) = month}

\* C8: the store holds at most one financial record per calendar month; an
\* upsert leaves exactly one record for the month of its periodStart,
\* which carries the periodEnd and metrics of that upsert and, when the
\* month already had a record, the id of that record (the id assigned by
\* the first upsert of the month).
C8_OneRecordPerMonth ==
    /\ [](\A i, j \in 1..Len(financials) :
             Month(financials[i].v.periodStart)
                = Month(financials[j].v.periodStart) => i = j)
    /\ [][\A s \in Browser, body \in FinancialBodies :
             (/\ last'.route = "postFinancial"
              /\ last'.status = 200
              /\ PostFinancial(s, body))
                => LET month == Month(body.periodStart)
                       new == last'.body.financial
                   IN  /\ Cardinality(InMonth(financials', month)) = 1
                       /\ \A i \in InMonth(financials', month) :
                              financials'[i].v = new
                       /\ new.periodStart = body.periodStart
                       /\ new.periodEnd = body.periodEnd
                       /\ new.metrics = body.metrics
                       /\ \A i \in InMonth(financials, month) :
                              new.id = financials[i].v.id
                       /\ \A i \in 1..Len(financials) :
                              i \notin InMonth(financials, month)
                                 => /\ financials'[i] = financials[i]
                                    /\ new.id # financials[i].v.id]_vars

\* January was written twice, the second time for the 15th: one record,
\* with the id of the first write and the periodEnd and metrics of the
\* second.
C8_Witness ==
    /\ last.route = "postFinancial"
    /\ last.status = 200
    /\ nextId = SeedCount + 2
    /\ Len(financials) = 1
    /\ financials[1].v.id = randomUUID(SeedCount + 1)
    /\ financials[1].v.periodStart = Jan15
    /\ financials[1].v.periodEnd = <<"2025-01-30">>
    /\ financials[1].v.metrics = <<"m2">>
-----------------------------------------------------------------------------
(* The admin-gated routes, requested from two browsers: the first signs in *)
(* as the seeded admin, the second as Dorian.  Either can demote or delete *)
(* the other.  Decks are requested from the first browser; the timer such  *)
(* a request sets fires by itself.                                         *)

GateCreateBodies ==
    {[email |-> EmailA, password |-> PwSecret, name |-> <<"Al">>,
      role |-> Operator, products |-> Array(<< >>)]}

GatePatchBodies == {[role |-> Operator]}

GateGenerateBodies == {[periodType |-> Weekly, periodStart |-> Week1]}

NextGate ==
    \/ \E r \in Conn :
           Login(r, "s1", [email |-> AdminEmail, password |-> PwAdmin])
    \/ \E r \in Conn :
           Login(r, "s2", [email |-> DorianEmail, password |-> PwDorian])
    \/ \E s \in Sessions : Logout(s)
    \/ \E r \in Conn, s \in Sessions : AdminGetUsers(r, s)
    \/ \E r \in Conn, s \in Sessions, body \in GateCreateBodies :
           AdminCreateUser(r, s, body) /\ Cap(MaxUsers)
    \/ \E r \in Conn, s \in Sessions, id \in UserIds,
          body \in GatePatchBodies :
           AdminPatchUser(r, s, id, body)
    \/ \E r \in Conn, s \in Sessions, id \in UserIds :
           AdminDeleteUser(r, s, id)
    \/ \E r \in Conn, s \in Sessions : AdminGetGenerations(r, s)
    \/ \E r \in Conn, s \in Browser, body \in GateGenerateBodies :
           GenerateDeck(r, s, body) /\ Cap(MaxUsers)
    \/ CompletionCallback

SpecGate == Init /\ [][NextGate]_vars

-----------------------------------------------------------------------------
(* Claims about the admin gate (SpecGate).                                 *)

\* The session s has no userId.
NotBound(s) == session[s] = Undefined

\* The session s has a userId whose user is missing or is not an admin.
NotAdmin(s) ==
    /\ session[s] # Undefined
    /\ \A i \in 1..Len(users) :
           users[i].v.id = session[s] => users[i].v.role # Admin

AdminRoutes ==
    {"adminGetUsers", "adminCreateUser", "adminPatchUser", "adminDeleteUser",
     "adminGetGenerations", "generateDeck"}

\* A step in which an admin-gated request on session s arrives on r.
AdminGated(r, s) ==
    /\ inflight[r].pc = "idle"
    /\ inflight'[r] # inflight[r] \/ last' # last
    /\ \/ AdminGetUsers(r, s)
       \/ \E body \in GateCreateBodies : AdminCreateUser(r, s, body)
       \/ \E id \in UserIds, body \in GatePatchBodies :
              AdminPatchUser(r, s, id, body)
       \/ \E id \in UserIds : AdminDeleteUser(r, s, id)
       \/ AdminGetGenerations(r, s)
       \/ \E body \in GateGenerateBodies : GenerateDeck(r, s, body)

\* The users, submissions and generations stores are left as they are.
StoresKept ==
    /\ users' = users
    /\ submissions' = submissions
    /\ generations' = generations

\* C4: an admin-gated request made on a session with no userId answers 401
\* at once; one made on a session whose user is missing or is not an admin
\* has requireAdmin read that user and answers 403 when requireAdmin
\* resumes; in both cases no step of the request changes the users,
\* submissions or generations store.
C4_AdminGate ==
    [][\A r \in Conn :
          /\ \A s \in Sessions :
                /\ (NotBound(s) /\ AdminGated(r, s))
                      => /\ last'.status = 401
                         /\ last'.route \in AdminRoutes
                         /\ inflight'[r] = Idle
                         /\ StoresKept
                /\ (NotAdmin(s) /\ AdminGated(r, s))
                      => /\ inflight'[r].pc = "requireAdmin"
                         /\ inflight'[r].route \in AdminRoutes
                         /\ inflight'[r].user = getUser(users, session[s])
                         /\ StoresKept
          /\ (/\ inflight[r].pc = "requireAdmin"
              /\ inflight'[r] # inflight[r]
              /\ \/ inflight[r].user = Absent
                 \/ inflight[r].user.role # Admin)
                => /\ Answers(r, inflight[r].route, 403)
                   /\ StoresKept]_vars

\* A generate-deck request of a signed-in user who was demoted to operator
\* was refused.
C4_Witness ==
    /\ last.route = "generateDeck"
    /\ last.status = 403
    /\ \E s \in Sessions :
           /\ session[s] # Undefined
           /\ getUser(users, session[s]) # Absent
           /\ getUser(users, session[s]).role = Operator

-----------------------------------------------------------------------------
(* Deleting users and registering again, from two browsers signed in as    *)
(* the seeded users, one request at a time.                                *)

\* Registrations with the email of a seeded user and with a new email.
DeleteRegisterBodies ==
    {[email |-> DorianEmail, password |-> PwSecret, name |-> <<"Do">>],
     [email |-> EmailAUpper, password |-> PwSecret, name |-> <<"Al">>]}

NextDelete ==
    \/ \E r \in Conn, s \in Sessions, body \in SeedLogins : Login(r, s, body)
    \/ \E s \in Sessions : Logout(s)
    \/ \E r \in Conn, s \in Sessions : Me(r, s)
    \/ \E r \in Conn, body \in DeleteRegisterBodies :
           Register(r, body) /\ Cap(MaxUsers)
    \/ \E r \in Conn, s \in Sessions, id \in UserIds :
           AdminDeleteUser(r, s, id)

SpecDelete == Init /\ [][NextDelete]_vars

\* Some stored user has the email, compared in lower case.
EmailStored(us, email) ==
    \E i \in 1..Len(us) : toLowerCase(us[i].v.email) = toLowerCase(email)

\* C13: the deleteUser(id) of a DELETE returns true exactly when a user
\* with the id existed: then getUser(id) and getUserByEmail(that user's
\* email) are absent, the other users are as before and the DELETE answers
\* 200; for an id without user it returns false, the users are unchanged
\* and the DELETE answers 404.  A valid registration with an email that no
\* stored user has, such as that of a deleted user, finds no user with the
\* email, stores the user under a new id and answers 200.
C13_DeleteThenRegister ==
    [][\A r \in Requests :
          /\ (/\ Resumes(r, "adminDeleteUser", "requireAdmin")
              /\ inflight'[r].pc = "deleteUser")
                => LET id == inflight[r].id
                   IN  IF \E i \in 1..Len(users) : users[i].v.id = id
                       THEN LET old == CHOOSE u \in {users[i].v :
                                                       i \in 1..Len(users)} :
                                          u.id = id
                            IN  /\ inflight'[r].result.deleted
                                /\ getUser(users', id) = Absent
                                /\ getUserByEmail(users', old.email) = Absent
                                /\ Len(users') = Len(users) - 1
                                /\ \A i \in 1..Len(users) :
                                       users[i].v.id # id
                                          => \E j \in 1..Len(users') :
                                                 users'[j] = users[i]
                       ELSE ~inflight'[r].result.deleted /\ users' = users
          /\ Resumes(r, "adminDeleteUser", "deleteUser")
                => /\ users' = users
                   /\ IF inflight[r].result.deleted
                      THEN Answers(r, "adminDeleteUser", 200)
                      ELSE Answers(r, "adminDeleteUser", 404)
          /\ (/\ Arrives(r, "register")
              /\ ~EmailStored(users, inflight'[r].body.email))
                => inflight'[r].result = Absent
          /\ (/\ Resumes(r, "register", "getUserByEmail")
              /\ ~EmailStored(users, inflight[r].body.email))
                => LET email == inflight[r].body.email
                   IN  /\ inflight'[r].pc = "createUser"
                       /\ getUserByEmail(users', email) # Absent
                       /\ getUserByEmail(users', email).id
                             = randomUUID(nextId + 1)
                       /\ getUserByEmail(users', email) = inflight'[r].result
          /\ Resumes(r, "register", "createUser")
                => /\ Answers(r, "register", 200)
                   /\ last'.body.userId = inflight[r].result.id
                   /\ users' = users]_vars

\* Dorian was deleted and registered again: the email is stored under a
\* new id, as an operator.
C13_Witness ==
    /\ last.route = "register"
    /\ last.status = 200
    /\ getUser(users, randomUUID(2)) = Absent
    /\ getUserByEmail(users, DorianEmail) # Absent
    /\ getUserByEmail(users, DorianEmail).id = randomUUID(SeedCount + 1)
    /\ getUserByEmail(users, DorianEmail).role = Operator

-----------------------------------------------------------------------------
(* Create requests on two connections, which overlap at their awaits.      *)

RaceRegisterBodies ==
    {[email |-> EmailA, password |-> PwSecret, name |-> <<"Al">>],
     [email |-> EmailAUpper, password |-> PwSecret, name |-> <<"Al">>],
     [email |-> AdminEmailUpper, password |-> PwSecret, name |-> <<"Al">>]}

RaceCreateBodies ==
    {[email |-> EmailAUpper, password |-> PwSecret, name |-> <<"Al">>,
      role |-> Admin, products |-> Array(<<"stigviewer">>)]}

NextRace ==
    \/ \E r \in Requests :
           Login(r, "s1", [email |-> AdminEmail, password |-> PwAdmin])
    \/ Logout("s1")
    \/ \E r \in Requests, body \in RaceRegisterBodies :
           Register(r, body) /\ Cap(MaxCreates)
    \/ \E r \in Requests, body \in RaceCreateBodies :
           AdminCreateUser(r, "s1", body) /\ Cap(MaxCreates)

SpecRace == Init /\ [][NextRace]_vars

\* No two users of us have emails that are equal after lower-casing.
UniqueEmails(us) ==
    \A i, j \in 1..Len(us) :
        toLowerCase(us[i].v.email) = toLowerCase(us[j].v.email) => i = j

\* C22: two create requests with the same normalized email that overlap at
\* their awaits do not both succeed; in every interleaving of their
\* getUserByEmail and createUser at most one user has the email.
C22_OverlappingCreates ==
    /\ UniqueEmails(users)
    /\ \A r, q \in Requests :
           (/\ r # q
            /\ inflight[r].pc = "createUser"
            /\ inflight[q].pc = "createUser")
              => toLowerCase(inflight[r].result.email)
                    # toLowerCase(inflight[q].result.email)

\* Connection r's create request (register, or admin create past the gate
\* and the validation) looks the email up.
LooksUp(r) ==
    \/ Arrives(r, "register")
    \/ /\ Resumes(r, "adminCreateUser", "requireAdmin")
       /\ inflight'[r].pc = "getUserByEmail"

\* Connection r's create request resumes after its getUserByEmail.
Checked(r) ==
    \/ Resumes(r, "register", "getUserByEmail")
    \/ Resumes(r, "adminCreateUser", "getUserByEmail")

\* C3: no two stored users have emails that are equal after lower-casing:
\* a create request (register, or admin create that gets past the admin
\* gate) whose email matches a stored user's email case-insensitively,
\* when it looks the email up and when it resumes, adds no user and
\* answers 400.
C3_UniqueEmails ==
    /\ [](UniqueEmails(users))
    /\ [][\A r \in Requests :
             /\ (LooksUp(r) /\ EmailStored(users, inflight'[r].body.email))
                   => /\ inflight'[r].result # Absent
                      /\ users' = users
             /\ (Checked(r) /\ EmailStored(users, inflight[r].body.email))
                   => /\ Answers(r, inflight[r].route, 400)
                      /\ users' = users]_vars

-----------------------------------------------------------------------------
(* Calls of the user store itself, next to registrations.                  *)

\* storage.updateUser(id, { email }).
UpdateUserEmail(id, email) ==
    /\ users' = updateUser(users, id, [email |-> email])
    /\ UNCHANGED <<submissions, generations, financials, session, display, timers,
                   now, nextId, last, inflight>>

StoreEmails == {EmailA, EmailAUpper, AdminEmail}

NextStore ==
    \/ \E r \in Conn, body \in RegisterBodies :
           Register(r, body) /\ Cap(MaxUsers)
    \/ \E id \in UserIds, email \in StoreEmails : UpdateUserEmail(id, email)
    \/ Tick

SpecStore == Init /\ [][NextStore]_vars

\* getUserByEmail(email) finds the user id.
ResolvesTo(us, email, id) ==
    getUserByEmail(us, email) # Absent /\ getUserByEmail(us, email).id = id

\* C23: after updateUser(id, {email: E}) succeeded, getUserByEmail of the
\* old email does not find the user any more, getUserByEmail(E) finds the
\* user, and no two users share an email.
C23_EmailChange ==
    /\ [](UniqueEmails(users))
    /\ [][\A id \in UserIds, email \in StoreEmails :
             (MapHas(users, id) /\ UpdateUserEmail(id, email))
                => LET old == MapGet(users, id).email
                   IN  /\ toLowerCase(old) # toLowerCase(email)
                             => ~ResolvesTo(users', old, id)
                       /\ ResolvesTo(users', email, id)
                       /\ UniqueEmails(users')]_vars

-----------------------------------------------------------------------------
(* The user routes with PATCH bodies that omit or misspell a role.         *)

RolePatchBodies ==
    {[name |-> <<"Bo">>],
     [role |-> <<"root">>],
     [role |-> Admin, name |-> <<"Bo">>, products |-> Array(<<"sams">>)]}

RoleLogins ==
    {[email |-> AdminEmail, password |-> PwAdmin],
     [email |-> EmailA, password |-> PwSecret]}

NextRoles ==
    \/ \E r \in Conn, body \in RegisterBodies :
           Register(r, body) /\ Cap(MaxUsers)
    \/ \E r \in Conn, s \in Browser, body \in RoleLogins : Login(r, s, body)
    \/ \E r \in Conn, s \in Browser, body \in AdminCreateBodies :
           AdminCreateUser(r, s, body) /\ Cap(MaxUsers)
    \/ \E r \in Conn, s \in Browser, id \in UserIds,
          body \in RolePatchBodies :
           AdminPatchUser(r, s, id, body)
    \/ \E r \in Conn, s \in Browser, id \in UserIds :
           AdminDeleteUser(r, s, id)

SpecRoles == Init /\ [][NextRoles]_vars

\* C24: in every state reachable through register, admin create, PATCH
\* and DELETE, every stored user's role is admin or operator.
C24_RoleAdminOrOperator ==
    \A i \in 1..Len(users) : users[i].v.role \in {Admin, Operator}

-----------------------------------------------------------------------------
(* Two signed-in admins, one of whom the other demotes or deletes, one     *)
(* request at a time.  Decks are requested from the first browser; the     *)
(* timer such a request sets fires by itself.                              *)

DemoteSubmissionBodies ==
    {[productId |-> ProductA, fieldName |-> FieldA, value |-> <<"100">>,
      periodType |-> Weekly, periodStart |-> Week1]}

NextDemote ==
    \/ \E r \in Conn :
           Login(r, "s1", [email |-> AdminEmail, password |-> PwAdmin])
    \/ \E r \in Conn :
           Login(r, "s2", [email |-> DorianEmail, password |-> PwDorian])
    \/ \E s \in Sessions : Logout(s)
    \/ \E r \in Conn, s \in Sessions : AdminGetUsers(r, s)
    \/ \E r \in Conn, s \in Sessions, id \in UserIds,
          body \in GatePatchBodies :
           AdminPatchUser(r, s, id, body)
    \/ \E r \in Conn, s \in Sessions, id \in UserIds :
           AdminDeleteUser(r, s, id)
    \/ \E r \in Conn, s \in Browser, body \in GateGenerateBodies :
           GenerateDeck(r, s, body) /\ Cap(MaxUsers)
    \/ \E r \in Conn, s \in Sessions, body \in DemoteSubmissionBodies :
           PostSubmission(r, s, body) /\ Cap(MaxUsers)
    \/ CompletionCallback

SpecDemote == Init /\ [][NextDemote]_vars

\* The session s is bound to a user id that is no longer stored.
Deleted(s) == session[s] # Undefined /\ getUser(users, session[s]) = Absent

\* A step in which an admin-gated request of SpecDemote on session s
\* arrives on r.
DemoteGated(r, s) ==
    /\ inflight[r].pc = "idle"
    /\ inflight'[r] # inflight[r] \/ last' # last
    /\ \/ AdminGetUsers(r, s)
       \/ \E id \in UserIds, body \in GatePatchBodies :
              AdminPatchUser(r, s, id, body)
       \/ \E id \in UserIds : AdminDeleteUser(r, s, id)
       \/ \E body \in GateGenerateBodies : GenerateDeck(r, s, body)

\* C25: the admin check reads the stored user on every request.  An
\* admin-gated request that arrives while its session is bound to a user
\* who is stored as a non-admin or is no longer stored has requireAdmin
\* read that user, answers 403 when it resumes and changes no store; a
\* bound session stops being refused only through a PATCH of its user or a
\* new login, and a deleted user never comes back while the session stays
\* bound; a POST /api/submissions that arrives on a deleted user's session
\* finds no user, answers 404 and changes no store.
C25_GateReadsStoredUser ==
    [][/\ \A r \in Conn :
             /\ \A s \in Sessions :
                   /\ (NotAdmin(s) /\ DemoteGated(r, s))
                         => /\ inflight'[r].pc = "requireAdmin"
                            /\ inflight'[r].user = getUser(users, session[s])
                            /\ stores' = stores
                   /\ (/\ Deleted(s)
                       /\ Arrives(r, "postSubmission")
                       /\ inflight'[r].s = s)
                         => /\ inflight'[r].pc = "getUser"
                            /\ inflight'[r].user = Absent
                            /\ stores' = stores
             /\ (/\ inflight[r].pc = "requireAdmin"
                 /\ inflight'[r] # inflight[r]
                 /\ \/ inflight[r].user = Absent
                    \/ inflight[r].user.role # Admin)
                   => /\ Answers(r, inflight[r].route, 403)
                      /\ stores' = stores
             /\ (/\ Resumes(r, "postSubmission", "getUser")
                 /\ inflight[r].user = Absent)
                   => /\ Answers(r, "postSubmission", 404)
                      /\ stores' = stores
       /\ \A s \in Sessions :
             /\ (NotAdmin(s) /\ session'[s] # Undefined /\ ~NotAdmin(s)')
                   => \E q \in Requests :
                         \/ Resumes(q, "adminPatchUser", "requireAdmin")
                         \/ Resumes(q, "login", "getUserByEmail")
             /\ (Deleted(s) /\ session'[s] = session[s]) => Deleted(s)']_vars

\* The second session is still bound to a user the first admin deleted,
\* and its POST /api/submissions was answered 404.
C25_Witness ==
    /\ Deleted("s2")
    /\ session["s1"] # Undefined
    /\ ~NotAdmin("s1")
    /\ last.route = "postSubmission"
    /\ last.status = 404
    /\ submissions = << >>

-----------------------------------------------------------------------------
(* The routes open to every visitor and to operators, next to the admin    *)
(* routes that set a role.                                                 *)

NextEscalate ==
    \/ \E r \in Conn, body \in RegisterBodies :
           Register(r, body) /\ Cap(MaxUsers)
    \/ \E r \in Conn, s \in Browser, body \in RoleLogins : Login(r, s, body)
    \/ \E s \in Browser : Logout(s)
    \/ \E r \in Conn, s \in Browser : Me(r, s)
    \/ \E r \in Conn, s \in Browser, body \in DemoteSubmissionBodies :
           PostSubmission(r, s, body) /\ Cap(MaxUsers)
    \/ \E r \in Conn, s \in Browser, query \in SubmissionQueries :
           GetSubmissions(r, s, query)
    \/ \E r \in Conn, s \in Browser, body \in AdminCreateBodies :
           AdminCreateUser(r, s, body) /\ Cap(MaxUsers)
    \/ \E r \in Conn, s \in Browser, id \in UserIds, body \in PatchBodies :
           AdminPatchUser(r, s, id, body)

SpecEscalate == Init /\ [][NextEscalate]_vars

\* The ids of the users with role admin.
AdminIds(us) == {us[i].v.id : i \in Admins(us)}

\* The request on connection r is admin-gated and requireAdmin read a
\* stored admin for it.
PassedGate(r) ==
    /\ inflight[r].route \in AdminRoutes
    /\ ~Falsy(inflight[r].userId)
    /\ inflight[r].user # Absent
    /\ inflight[r].user.role = Admin

\* The route of the request that takes a step on connection r.
StepOf(r) ==
    IF inflight[r].pc = "idle" THEN inflight'[r].route ELSE inflight[r].route

\* No user becomes an admin.
NoNewAdmin == AdminIds(users') \subseteq AdminIds(users)

\* C26: the set of admins grows only in the step in which a POST
\* /api/admin/users calls createUser or a PATCH /api/admin/users/:id calls
\* updateUser, for a request that passed requireAdmin; no step of
\* register, login, me or the submission routes, no step of a request for
\* which requireAdmin did not read an admin, and no login or logout that
\* changes a session, adds an admin.
C26_NoEscalation ==
    [][/\ ~NoNewAdmin
             => \E r \in Requests :
                   /\ PassedGate(r)
                   /\ \/ Resumes(r, "adminCreateUser", "getUserByEmail")
                      \/ Resumes(r, "adminPatchUser", "requireAdmin")
       /\ \A r \in Requests :
             (/\ inflight'[r] # inflight[r]
              /\ \/ StepOf(r) \in {"register", "login", "me",
                                   "postSubmission", "getSubmissions"}
                 \/ ~PassedGate(r))
                => NoNewAdmin
       /\ session' # session => NoNewAdmin]_vars

\* A user who registered, and so started as an operator, was made an
\* admin by a PATCH of a signed-in admin; only register stores the email
\* EmailA.
C26_Witness ==
    /\ Len(users) = SeedCount + 1
    /\ users[SeedCount + 1].v.email = EmailA
    /\ users[SeedCount + 1].v.role = Admin
    /\ users[SeedCount + 1].v.name = <<"Bo">>
    /\ last.route = "adminPatchUser"
    /\ last.status = 200
    /\ \E s \in Browser : session[s] \in AdminIds(users)

-----------------------------------------------------------------------------
(* Claims about the admins that remain (SpecDelete).                       *)

\* C27: from the seeded state, after any sequence of DELETE
\* /api/admin/users/:id requests, each handled to its answer before the
\* next request arrives, with logins and registrations but no PATCH in
\* between, at least one user with role admin remains: the deleteUser of a
\* DELETE is called for a requester who is a stored admin, and who is
\* still stored as an admin after it.
C27_AdminRemains ==
    /\ [](Admins(users) # {})
    /\ [][\A r \in Requests :
             (/\ Resumes(r, "adminDeleteUser", "requireAdmin")
              /\ inflight'[r].pc = "deleteUser")
                => /\ inflight[r].userId \in AdminIds(users)
                   /\ inflight[r].userId \in AdminIds(users')
                   /\ inflight[r].id \notin MapKeys(users')]_vars

\* One seeded admin deleted the other, whose session is still bound: one
\* admin remains.
C27_Witness ==
    /\ Cardinality(Admins(users)) = 1
    /\ Len(users) = 1
    /\ last.route = "adminDeleteUser"
    /\ last.status = 200
    /\ \E s, q \in Sessions : Deleted(s) /\ session[q] \in AdminIds(users)

-----------------------------------------------------------------------------
(* The routes that call each store operation, on one store.                *)

FrameSubmissionBodies ==
    {[productId |-> ProductA, fieldName |-> FieldA, value |-> <<"100">>,
      periodType |-> Weekly, periodStart |-> Week1],
     [productId |-> ProductA, fieldName |-> FieldB, value |-> <<"200">>,
      periodType |-> Weekly, periodStart |-> Week1]}

NextFrame ==
    \/ \E r \in Conn, s \in Browser :
           Login(r, s, [email |-> AdminEmail, password |-> PwAdmin])
    \/ \E r \in Conn, s \in Browser : Me(r, s)
    \/ \E r \in Conn, s \in Browser : AdminGetUsers(r, s)
    \/ \E r \in Conn, s \in Browser, body \in FrameSubmissionBodies :
           PostSubmission(r, s, body) /\ Cap(MaxWrites)
    \/ \E r \in Conn, s \in Browser, query \in SubmissionQueries :
           GetSubmissions(r, s, query)
    \/ \E r \in Conn, s \in Browser, body \in GateGenerateBodies :
           GenerateDeck(r, s, body) /\ Cap(MaxWrites)
    \/ \E r \in Conn, s \in Browser : AdminGetGenerations(r, s)
    \/ CompletionCallback
    \/ Tick

SpecFrame == Init /\ [][NextFrame]_vars

\* The entries of the map m whose key is not key are the same, at the same
\* places, in the map n.
OthersKept(m, n, key) ==
    /\ Len(n) >= Len(m)
    /\ \A i \in 1..Len(m) : m[i].k # key => n[i] = m[i]

\* The routes that only read the stores.
ReadRoutes ==
    {"me", "login", "adminGetUsers", "getSubmissions", "adminGetGenerations"}

\* C29: store operations touch only their own entry.  The setSubmission of
\* a POST /api/submissions for a key leaves the records of every other
\* key, the users and the generations unchanged; the callback's
\* updateDeckGeneration(id) leaves every other generation, the users and
\* the submissions unchanged; and no step of the routes that only read
\* (getUser in me, getUserByEmail in login, getAllUsers, the submission
\* listings, getRecentGenerations with its sort) changes a store.
C29_OwnEntryOnly ==
    [][/\ \A r \in Requests :
             /\ Writes(r)
                   => LET body == inflight[r].body
                      IN  /\ OthersKept(submissions, submissions',
                                        getSubmissionKey(body.productId,
                                                         body.fieldName,
                                                         body.periodStart))
                          /\ users' = users
                          /\ generations' = generations
             /\ (inflight'[r] # inflight[r] /\ StepOf(r) \in ReadRoutes)
                   => stores' = stores
       /\ CompletionCallback
             => /\ OthersKept(generations, generations', Head(timers))
                /\ Len(generations') = Len(generations)
                /\ users' = users
                /\ submissions' = submissions
       /\ (inflight' = inflight /\ last' # last /\ last'.route \in ReadRoutes)
             => stores' = stores]_vars

\* The second POST /api/submissions wrote under another key than the
\* first, whose record, written at time 0, is still stored; the users are
\* the seeded ones.
C29_Witness ==
    /\ Len(submissions) = 2
    /\ submissions[1].k # submissions[2].k
    /\ submissions[1].v.updatedAt = 0
    /\ submissions[2].v.updatedAt = 1
    /\ last.route = "postSubmission"
    /\ last.status = 200
    /\ last.body.submission = submissions[2].v
    /\ users = SeedUsers

-----------------------------------------------------------------------------
(* The metric rows of the submit page.                                     *)

\* A metric row rendered with the actual and target values entered: the
\* colour comes from calculatePercent when higher is better and from
\* calculatePercentInverse otherwise.
RenderMetric(higherBetter, actual, target) ==
    /\ display' = [higherBetter |-> higherBetter, actual |-> actual,
                   target |-> target,
                   result |-> IF higherBetter
                              THEN calculatePercent(actual, target)
                              ELSE calculatePercentInverse(actual, target)]
    /\ UNCHANGED <<stores, session, timers, now, nextId, last, inflight>>

\* The values entered: none above the bounds, and one below zero.
NextPercent ==
    \E higherBetter \in BOOLEAN,
       actual \in (0 - 1)..MaxActual, target \in (0 - 1)..MaxTarget :
        RenderMetric(higherBetter, actual, target)

SpecPercent == Init /\ [][NextPercent]_vars

\* C30: calculatePercent returns value 0 and colour red when target <= 0;
\* for target > 0 it is green exactly when actual >= target, yellow
\* exactly when 0.8 * target <= actual < target, and red otherwise.
\* calculatePercentInverse is green exactly when actual <= target, yellow
\* exactly when target < actual <= 1.2 * target, and red otherwise.
C30_PercentColors ==
    LET a == display.actual
        t == display.target
        r == display.result
    IN  /\ r.color \in {"green", "yellow", "red"}
        /\ t <= 0 => (r.value = 0 /\ r.color = "red")
        /\ (t > 0 /\ display.higherBetter)
              => /\ r.color = "green" <=> a >= t
                 /\ r.color = "yellow" <=> (4 * t <= 5 * a /\ a < t)
                 /\ r.color = "red" <=> 5 * a < 4 * t
        /\ (t > 0 /\ ~display.higherBetter)
              => /\ r.color = "green" <=> a <= t
                 /\ r.color = "yellow" <=> (t < a /\ 5 * a <= 6 * t)
                 /\ r.color = "red" <=> 5 * a > 6 * t

\* A row where higher is better shows 8 of 10, the lowest yellow value.
C30_Witness ==
    /\ display.higherBetter
    /\ display.actual = 8
    /\ display.target = 10
    /\ display.result = [value |-> 800, color |-> "yellow"]


=============================================================================
